---- MODULE Spec2Model ----
(***************************************************************************)
(* Model of the initial-seed search engine of wasm-pkg: the clock encoding *)
(* tables (datetime_codes.rs), the one-block SHA-1 (sha1.rs), the seed     *)
(* derivation, the message template (searcher.rs) and the scalar and       *)
(* 4-lane search loops (search_algorithms.rs).                             *)
(*                                                                         *)
(* Number representation.  TLC integers are 32-bit signed, so a Rust u32   *)
(* is held as the pair <<hi, lo>> of its two 16-bit halves (value          *)
(* hi * 65536 + lo), an i64 count of seconds as the pair <<hi, lo>> with   *)
(* value hi * 65536 + lo, 0 <= lo < 65536 and hi signed, and a u64 as the  *)
(* sequence of its 8 bytes.  All operators below work on the full value.   *)
(***************************************************************************)
EXTENDS Integers, Sequences, FiniteSets, TLC

(***************************************************************************)
(* u32 arithmetic                                                          *)
(***************************************************************************)
\* the u32 with the given 16-bit halves
U32(hi, lo) == <<hi, lo>>

\* `n as u32` for a natural number n < 2^31
ToU32(n) == <<(n \div 65536) % 65536, n % 65536>>

RECURSIVE BitsOp(_, _, _, _)
\* bitwise combination of the low k bits of x and y; f is the truth table of
\* the operator, indexed by 2 * bit of x + bit of y
BitsOp(f, x, y, k) ==
    IF k = 0 THEN 0
    ELSE f[2 * (x % 2) + (y % 2)] + (2 * BitsOp(f, x \div 2, y \div 2, k - 1))

AndBit == [z \in 0..3 |-> IF z = 3 THEN 1 ELSE 0]
OrBit  == [z \in 0..3 |-> IF z = 0 THEN 0 ELSE 1]
XorBit == [z \in 0..3 |-> IF z \in {1, 2} THEN 1 ELSE 0]

\* 4-bit tables of the three operators, indexed by 16 * x + y
AndNib == [z \in 0..255 |-> BitsOp(AndBit, z \div 16, z % 16, 4)]
OrNib  == [z \in 0..255 |-> BitsOp(OrBit, z \div 16, z % 16, 4)]
XorNib == [z \in 0..255 |-> BitsOp(XorBit, z \div 16, z % 16, 4)]

\* a bitwise operator on 16-bit halves, nibble by nibble
Op16(t, x, y) ==
    t[16 * (x % 16) + (y % 16)]
    + (16 * t[16 * ((x \div 16) % 16) + ((y \div 16) % 16)])
    + (256 * t[16 * ((x \div 256) % 16) + ((y \div 256) % 16)])
    + (4096 * t[16 * (x \div 4096) + (y \div 4096)])

\* a & b
And32(a, b) == <<Op16(AndNib, a[1], b[1]), Op16(AndNib, a[2], b[2])>>
\* a | b
Or32(a, b) == <<Op16(OrNib, a[1], b[1]), Op16(OrNib, a[2], b[2])>>
\* a ^ b
Xor32(a, b) == <<Op16(XorNib, a[1], b[1]), Op16(XorNib, a[2], b[2])>>
\* !a
Not32(a) == <<65535 - a[1], 65535 - a[2]>>
\* a.wrapping_add(b)
Add32(a, b) ==
    LET lo == a[2] + b[2]
    IN  <<(a[1] + b[1] + (lo \div 65536)) % 65536, lo % 65536>>
\* a << n on u32, 0 <= n < 32 (bits shifted out are dropped)
Shl32(a, n) ==
    IF n >= 16 THEN <<(a[2] * 2^(n - 16)) % 65536, 0>>
    ELSE <<((a[1] * 2^n) % 65536) + ((a[2] * 2^n) \div 65536), (a[2] * 2^n) % 65536>>
\* a >> n on u32, 0 <= n < 32
Shr32(a, n) ==
    IF n >= 16 THEN <<0, a[1] \div 2^(n - 16)>>
    ELSE <<a[1] \div 2^n, ((a[1] % 2^n) * 2^(16 - n)) + (a[2] \div 2^n)>>

\* value.swap_bytes() on u32
SwapBytes16(h) == ((h % 256) * 256) + (h \div 256)
SwapBytes32(a) == <<SwapBytes16(a[2]), SwapBytes16(a[1])>>

(***************************************************************************)
(* u64 arithmetic: a u64 is the sequence of its 8 bytes, least significant *)
(* first                                                                   *)
(***************************************************************************)
\* ((hi32 as u64) << 32) | (lo32 as u64)
U64FromWords(hi32, lo32) ==
    <<lo32[2] % 256, lo32[2] \div 256, lo32[1] % 256, lo32[1] \div 256,
      hi32[2] % 256, hi32[2] \div 256, hi32[1] % 256, hi32[1] \div 256>>

\* ((v >> 32) & 0xFFFFFFFF) as u32
U64High32(v) == <<(v[8] * 256) + v[7], (v[6] * 256) + v[5]>>

RECURSIVE ColumnSum(_, _, _, _)
\* sum of p[i] * q[k + 1 - i] for i = 1..n: column k of the schoolbook product
ColumnSum(p, q, k, n) ==
    IF n = 0 THEN 0 ELSE (p[n] * q[k + 1 - n]) + ColumnSum(p, q, k, n - 1)

RECURSIVE MulBytes(_, _, _, _)
\* bytes k..8 of p * q, given the carry into column k
MulBytes(p, q, k, carry) ==
    IF k > 8 THEN <<>>
    ELSE <<(ColumnSum(p, q, k, k) + carry) % 256>>
         \o MulBytes(p, q, k + 1, (ColumnSum(p, q, k, k) + carry) \div 256)

\* p.wrapping_mul(q) on u64
WrappingMul64(p, q) == MulBytes(p, q, 1, 0)

RECURSIVE AddBytes(_, _, _, _)
AddBytes(p, q, k, carry) ==
    IF k > 8 THEN <<>>
    ELSE <<(p[k] + q[k] + carry) % 256>>
         \o AddBytes(p, q, k + 1, (p[k] + q[k] + carry) \div 256)

\* p.wrapping_add(q) on u64
WrappingAdd64(p, q) == AddBytes(p, q, 1, 0)

(***************************************************************************)
(* sha1.rs                                                                 *)
(***************************************************************************)
choice(x, y, z) == Or32(And32(x, y), And32(Not32(x), z))
parity(x, y, z) == Xor32(Xor32(x, y), z)
\* mutant: the majority stage runs the choice function
majority_AsChoice(x, y, z) == Or32(And32(x, y), And32(Not32(x), z))

majority(x, y, z) == Or32(Or32(And32(x, y), And32(x, z)), And32(y, z))
left_rotate(value, amount) == Or32(Shl32(value, amount), Shr32(value, 32 - amount))

H0 == U32(26437, 8961)      \* 0x67452301
H1 == U32(61389, 43913)     \* 0xEFCDAB89
H2 == U32(39098, 56574)     \* 0x98BADCFE
H3 == U32(4146, 21622)      \* 0x10325476
H4 == U32(50130, 57840)     \* 0xC3D2E1F0
K1 == U32(23170, 31129)     \* 0x5A827999
K2 == U32(28377, 60321)     \* 0x6ED9EBA1
K3 == U32(36635, 48348)     \* 0x8F1BBCDC
K4 == U32(51810, 49622)     \* 0xCA62C1D6

RECURSIVE ScheduleTo(_, _)
\* the turns of `for i in 16..80` up to word `last`:
\* w[i] = rotl1(w[i-3] ^ w[i-8] ^ w[i-14] ^ w[i-16])
\* (w is 1-indexed here: w[i] of the code is w[i + 1])
ScheduleTo(w, last) ==
    IF Len(w) >= last THEN w
    ELSE LET n == Len(w) + 1
         IN  ScheduleTo(Append(w,
                left_rotate(Xor32(Xor32(Xor32(w[n - 3], w[n - 8]), w[n - 14]), w[n - 16]), 1)),
                last)

RECURSIVE Schedule(_)
\* the message schedule, i = 16..79, evaluated sixteen words at a time
Schedule(w) == IF Len(w) = 80 THEN w ELSE Schedule(ScheduleTo(w, Len(w) + 16))

\* one iteration of the main loop: s holds the round index i and the working
\* variables a..e
Round(w, s) ==
    [i |-> s.i + 1,
     a |-> Add32(Add32(Add32(Add32(left_rotate(s.a, 5),
               IF s.i <= 19 THEN choice(s.b, s.c, s.d)
               ELSE IF s.i <= 39 THEN parity(s.b, s.c, s.d)
               ELSE IF s.i <= 59 THEN majority(s.b, s.c, s.d)
               ELSE parity(s.b, s.c, s.d)),
             s.e),
             IF s.i <= 19 THEN K1 ELSE IF s.i <= 39 THEN K2
             ELSE IF s.i <= 59 THEN K3 ELSE K4),
             w[s.i + 1]),
     b |-> s.a,
     c |-> left_rotate(s.b, 30),
     d |-> s.c,
     e |-> s.d]

RECURSIVE RoundsTo(_, _, _)
\* the turns of `for i in 0..80` before turn `last`
RoundsTo(w, s, last) == IF s.i >= last THEN s ELSE RoundsTo(w, Round(w, s), last)

RECURSIVE Rounds(_, _)
\* the main loop over the 80 words of the schedule, evaluated one arm of the
\* `match i` (twenty turns) at a time
Rounds(w, s) == IF s.i = 80 THEN s ELSE Rounds(w, RoundsTo(w, s, s.i + 20))

\* final_h = H.wrapping_add(working variable)
FinalHash(r) ==
    <<Add32(H0, r.a), Add32(H1, r.b), Add32(H2, r.c), Add32(H3, r.d), Add32(H4, r.e)>>

calculate_pokemon_sha1(message) ==
    FinalHash(Rounds(Schedule(message),
                     [i |-> 0, a |-> H0, b |-> H1, c |-> H2, d |-> H3, e |-> H4]))

\* value.to_le(): the identity on a little-endian target, which wasm32 and
\* the hosts of the test suite are (test_endian_conversion asserts it)
to_little_endian_32(value) == value

LCG_MULTIPLIER == <<101, 137, 7, 108, 101, 139, 88, 93>>   \* 0x5D588B656C078965
LCG_ADD_VALUE == <<195, 158, 38, 0, 0, 0, 0, 0>>           \* 0x269EC3

calculate_pokemon_seed_from_hash(h0, h1) ==
    U64High32(WrappingAdd64(
        WrappingMul64(U64FromWords(to_little_endian_32(h1), to_little_endian_32(h0)),
                      LCG_MULTIPLIER),
        LCG_ADD_VALUE))

\* value.swap_bytes()
swap_bytes_32(value) == SwapBytes32(value)

(***************************************************************************)
(* sha1_simd.rs: a v128 is the tuple of its four u32 lanes                 *)
(***************************************************************************)
u32x4(l0, l1, l2, l3) == <<l0, l1, l2, l3>>
u32x4_splat(value) == <<value, value, value, value>>
u32x4_extract_lane(v, lane) == v[lane + 1]
v128_and(a, b) ==
    <<And32(a[1], b[1]),
      And32(a[2], b[2]),
      And32(a[3], b[3]),
      And32(a[4], b[4])>>
v128_or(a, b) ==
    <<Or32(a[1], b[1]),
      Or32(a[2], b[2]),
      Or32(a[3], b[3]),
      Or32(a[4], b[4])>>
v128_xor(a, b) ==
    <<Xor32(a[1], b[1]),
      Xor32(a[2], b[2]),
      Xor32(a[3], b[3]),
      Xor32(a[4], b[4])>>
\* v128_andnot(a, b) = a & !b
v128_andnot(a, b) ==
    <<And32(a[1], Not32(b[1])),
      And32(a[2], Not32(b[2])),
      And32(a[3], Not32(b[3])),
      And32(a[4], Not32(b[4]))>>
u32x4_add(a, b) ==
    <<Add32(a[1], b[1]),
      Add32(a[2], b[2]),
      Add32(a[3], b[3]),
      Add32(a[4], b[4])>>
u32x4_shl(a, n) ==
    <<Shl32(a[1], n),
      Shl32(a[2], n),
      Shl32(a[3], n),
      Shl32(a[4], n)>>
u32x4_shr(a, n) ==
    <<Shr32(a[1], n),
      Shr32(a[2], n),
      Shr32(a[3], n),
      Shr32(a[4], n)>>

simd_choice(x, y, z) == v128_or(v128_and(x, y), v128_andnot(z, x))
simd_parity(x, y, z) == v128_xor(v128_xor(x, y), z)
simd_majority(x, y, z) == v128_or(v128_or(v128_and(x, y), v128_and(x, z)), v128_and(y, z))
simd_left_rotate(value, amount) ==
    v128_or(u32x4_shl(value, amount), u32x4_shr(value, 32 - amount))

\* w[i] = u32x4(messages[i], messages[16 + i], messages[32 + i], messages[48 + i])
SimdLoad(messages) ==
    [i \in 1..16 |-> u32x4(messages[i], messages[16 + i], messages[32 + i], messages[48 + i])]

RECURSIVE SimdScheduleTo(_, _)
SimdScheduleTo(w, last) ==
    IF Len(w) >= last THEN w
    ELSE LET n == Len(w) + 1
         IN  SimdScheduleTo(Append(w,
                simd_left_rotate(
                    v128_xor(v128_xor(v128_xor(w[n - 3], w[n - 8]), w[n - 14]), w[n - 16]), 1)),
                last)

RECURSIVE SimdSchedule(_)
SimdSchedule(w) == IF Len(w) = 80 THEN w ELSE SimdSchedule(SimdScheduleTo(w, Len(w) + 16))

SimdRound(w, s) ==
    [i |-> s.i + 1,
     a |-> u32x4_add(u32x4_add(u32x4_add(u32x4_add(simd_left_rotate(s.a, 5),
               IF s.i <= 19 THEN simd_choice(s.b, s.c, s.d)
               ELSE IF s.i <= 39 THEN simd_parity(s.b, s.c, s.d)
               ELSE IF s.i <= 59 THEN simd_majority(s.b, s.c, s.d)
               ELSE simd_parity(s.b, s.c, s.d)), s.e),
             IF s.i <= 19 THEN u32x4_splat(K1) ELSE IF s.i <= 39 THEN u32x4_splat(K2)
             ELSE IF s.i <= 59 THEN u32x4_splat(K3) ELSE u32x4_splat(K4)), w[s.i + 1]),
     b |-> s.a, c |-> simd_left_rotate(s.b, 30), d |-> s.c, e |-> s.d]

RECURSIVE SimdRoundsTo(_, _, _)
SimdRoundsTo(w, s, last) == IF s.i >= last THEN s ELSE SimdRoundsTo(w, SimdRound(w, s), last)

RECURSIVE SimdRounds(_, _)
SimdRounds(w, s) == IF s.i = 80 THEN s ELSE SimdRounds(w, SimdRoundsTo(w, s, s.i + 20))

\* mutant: the four lanes of h0 first, then the four lanes of h1, ...
SimdExtract_WordMajor(f) ==
    [k \in 1..20 |-> u32x4_extract_lane(f[((k - 1) \div 4) + 1], (k - 1) % 4)]

\* results[lane * 5 + j] = lane `lane` of the j-th final vector
SimdExtract(f) ==
    [k \in 1..20 |-> u32x4_extract_lane(f[((k - 1) % 5) + 1], (k - 1) \div 5)]

\* the implementation compiled for target_arch = "wasm32"
calculate_pokemon_sha1_simd_wasm32(messages) ==
    LET final(r) ==
            SimdExtract(<<u32x4_add(u32x4_splat(H0), r.a), u32x4_add(u32x4_splat(H1), r.b),
                          u32x4_add(u32x4_splat(H2), r.c), u32x4_add(u32x4_splat(H3), r.d),
                          u32x4_add(u32x4_splat(H4), r.e)>>)
    IN  final(SimdRounds(SimdSchedule(SimdLoad(messages)),
                         [i |-> 0, a |-> u32x4_splat(H0), b |-> u32x4_splat(H1),
                          c |-> u32x4_splat(H2), d |-> u32x4_splat(H3),
                          e |-> u32x4_splat(H4)]))

(***************************************************************************)
(* datetime_codes.rs                                                       *)
(***************************************************************************)
RECURSIVE Concat(_, _, _)
\* the sequences ss[lo], ..., ss[hi] one after the other: the order in which a
\* loop nest that writes codes[index] and then does index += 1 fills the table
Concat(ss, lo, hi) ==
    IF lo > hi THEN <<>>
    ELSE IF lo = hi THEN ss[lo]
    ELSE Concat(ss, lo, (lo + hi) \div 2) \o Concat(ss, ((lo + hi) \div 2) + 1, hi)

\* the entries written by the loop over second, for one hour and minute
\* mutant: the seconds are packed in binary, not in BCD
TimeSecondLoop_BinarySeconds(h_code, min_code) ==
    [k \in 1..60 |-> Or32(Or32(h_code, min_code), Shl32(ToU32(k - 1), 8))]

TimeSecondLoop(h_code, min_code) ==
    [k \in 1..60 |->
        LET second == k - 1
            sec_code == Or32(Shl32(ToU32(second \div 10), 12), Shl32(ToU32(second % 10), 8))
        IN  Or32(Or32(h_code, min_code), sec_code)]

\* the entries written by the loop over minute, for one hour
TimeMinuteLoop(h_code) ==
    Concat([k \in 1..60 |->
               LET minute == k - 1
               IN  TimeSecondLoop(h_code,
                      Or32(Shl32(ToU32(minute \div 10), 20), Shl32(ToU32(minute % 10), 16)))],
           1, 60)

generate_all_time_codes ==
    Concat([k \in 1..24 |->
               LET hour == k - 1
               IN  TimeMinuteLoop(Or32(Shl32(ToU32(hour \div 10), 28), Shl32(ToU32(hour % 10), 24)))],
           1, 24)

\* the table; entry i of the code is TIME_CODES[i + 1]
TIME_CODES == generate_all_time_codes

get_time_code(seconds_of_day) ==
    LET read(codes) ==
            IF seconds_of_day < Len(codes) THEN codes[seconds_of_day + 1] ELSE U32(0, 0)
    IN  read(TIME_CODES)

\* the arm of `match hardware` that a lookup takes
hardware_branch(hardware) ==
    IF hardware \in {"DS", "DS_LITE"} THEN "DS | DS_LITE"
    ELSE IF hardware = "3DS" THEN "3DS"
    ELSE "_"

\* mutant: noon is a morning hour
get_time_code_for_hardware_NoonIsMorning(seconds_of_day, hardware) ==
    LET match(base_code) ==
            IF hardware_branch(hardware) = "DS | DS_LITE"
            THEN IF seconds_of_day \div 3600 > 12
                 THEN Or32(base_code, U32(16384, 0))
                 ELSE base_code
            ELSE IF hardware_branch(hardware) = "3DS" THEN base_code
            ELSE base_code
    IN  match(get_time_code(seconds_of_day))

get_time_code_for_hardware(seconds_of_day, hardware) ==
    LET match(base_code) ==
            IF hardware_branch(hardware) = "DS | DS_LITE"
            THEN IF seconds_of_day \div 3600 >= 12
                 THEN Or32(base_code, U32(16384, 0))   \* | 0x40000000
                 ELSE base_code
            ELSE IF hardware_branch(hardware) = "3DS" THEN base_code
            ELSE base_code
    IN  match(get_time_code(seconds_of_day))

is_leap_year(year) == (year % 4 = 0 /\ year % 100 # 0) \/ (year % 400 = 0)

\* mutant: February has 28 days in every year
days_in_month_NoLeapDay(year, month) ==
    IF month \in {1, 3, 5, 7, 8, 10, 12} THEN 31
    ELSE IF month \in {4, 6, 9, 11} THEN 30
    ELSE IF month = 2 THEN 28
    ELSE 0

days_in_month(year, month) ==
    IF month \in {1, 3, 5, 7, 8, 10, 12} THEN 31
    ELSE IF month \in {4, 6, 9, 11} THEN 30
    ELSE IF month = 2 THEN (IF is_leap_year(year) THEN 29 ELSE 28)
    ELSE 0

DAYS_BEFORE_MONTH == <<0, 0, 31, 59, 90, 120, 151, 181, 212, 243, 273, 304, 334>>

get_day_of_week(year, month, day) ==
    LET years_since_2000 == year - 2000
        leap_years == ((years_since_2000 + 3) \div 4) - (years_since_2000 \div 100)
                      + (years_since_2000 \div 400)
        days_from_years == (years_since_2000 * 365) + leap_years
        days_from_months == DAYS_BEFORE_MONTH[month + 1]
        leap_adjustment == IF month > 2 /\ is_leap_year(year) THEN 1 ELSE 0
        total_days == days_from_years + days_from_months + leap_adjustment + day - 1
    IN  (6 + total_days) % 7

\* the code written for one day
DateCode(year, month, day) ==
    LET day_of_week == get_day_of_week(year, month, day)
        year_val == year % 100
        yy_bcd == Or32(Shl32(ToU32(year_val \div 10), 4), ToU32(year_val % 10))
        mm_bcd == Or32(Shl32(ToU32(month \div 10), 4), ToU32(month % 10))
        dd_bcd == Or32(Shl32(ToU32(day \div 10), 4), ToU32(day % 10))
        ww_bcd == Or32(Shl32(ToU32(day_of_week \div 10), 4), ToU32(day_of_week % 10))
    IN  Or32(Or32(Or32(Shl32(yy_bcd, 24), Shl32(mm_bcd, 16)), Shl32(dd_bcd, 8)), ww_bcd)

\* the entries written by the loop over day, for one year and month
DateDayLoop(year, month) ==
    [day \in 1..days_in_month(year, month) |-> DateCode(year, month, day)]

\* the entries written by the loop over month, for one year
DateMonthLoop(year) == Concat([month \in 1..12 |-> DateDayLoop(year, month)], 1, 12)

generate_all_date_codes ==
    Concat([k \in 1..100 |-> DateMonthLoop(2000 + k - 1)], 1, 100)

\* the table; entry i of the code is DATE_CODES[i + 1]
DATE_CODES == generate_all_date_codes

\* mutant: an index past the end reads the last entry
get_date_code_Clamped(days_since_2000) ==
    LET read(codes) ==
            IF days_since_2000 < Len(codes) THEN codes[days_since_2000 + 1]
            ELSE codes[Len(codes)]
    IN  read(DATE_CODES)

get_date_code(days_since_2000) ==
    LET read(codes) ==
            IF days_since_2000 < Len(codes) THEN codes[days_since_2000 + 1] ELSE U32(0, 0)
    IN  read(DATE_CODES)

(***************************************************************************)
(* i64 seconds: value = hi * 65536 + lo with 0 <= lo < 65536 and hi signed *)
(***************************************************************************)
I64FromInt(n) == <<n \div 65536, n % 65536>>
I64Add(p, q) == <<p[1] + q[1] + ((p[2] + q[2]) \div 65536), (p[2] + q[2]) % 65536>>
I64Sub(p, q) == <<(p[1] - q[1]) + ((p[2] - q[2]) \div 65536), (p[2] - q[2]) % 65536>>
I64IsNegative(p) == p[1] < 0
\* days * 86400, with 86400 = 675 * 128 and 65536 = 512 * 128
I64FromDays(days) == <<(days * 675) \div 512, ((days * 675) % 512) * 128>>
\* p / 86400 and p % 86400 (floor; equal to Rust's truncation for p >= 0)
I64DivDay(p) == ((p[1] * 512) + (p[2] \div 128)) \div 675
I64ModDay(p) == ((((p[1] * 512) + (p[2] \div 128)) % 675) * 128) + (p[2] % 128)

(***************************************************************************)
(* chrono: the proleptic Gregorian calendar behind NaiveDate and DateTime. *)
(* An Option is a sequence: None is << >>, Some(v) is <<v>>.               *)
(***************************************************************************)
None == << >>
Some(v) == <<v>>

NaiveDateDaysInMonth(year, month) ==
    IF month = 2
    THEN IF (year % 4 = 0 /\ year % 100 # 0) \/ year % 400 = 0 THEN 29 ELSE 28
    ELSE IF month \in {4, 6, 9, 11} THEN 30 ELSE 31

\* NaiveDate::from_ymd_opt
from_ymd_opt(year, month, day) ==
    IF month >= 1 /\ month <= 12 /\ day >= 1 /\ day <= NaiveDateDaysInMonth(year, month)
    THEN Some([year |-> year, month |-> month, day |-> day])
    ELSE None

\* NaiveDate::and_hms_opt
and_hms_opt(date, hour, minute, second) ==
    IF hour < 24 /\ minute < 60 /\ second < 60
    THEN Some([year |-> date.year, month |-> date.month, day |-> date.day,
               hour |-> hour, minute |-> minute, second |-> second])
    ELSE None

\* days from 1970-01-01 to the given date
DaysFromCivil(year, month, day) ==
    LET y == IF month <= 2 THEN year - 1 ELSE year
        mp == IF month > 2 THEN month - 3 ELSE month + 9
        doy == (((153 * mp) + 2) \div 5) + (day - 1)
        doe == ((y % 400) * 365) + ((y % 400) \div 4) - ((y % 400) \div 100) + doy
    IN  ((y \div 400) * 146097) + doe - 719468

\* NaiveDateTime::and_utc().timestamp()
timestamp(datetime) ==
    I64Add(I64FromDays(DaysFromCivil(datetime.year, datetime.month, datetime.day)),
           I64FromInt((datetime.hour * 3600) + (datetime.minute * 60) + datetime.second))

\* the date `days` days after 1970-01-01
CivilFromDays(days) ==
    LET doe == (days + 719468) % 146097
        yoe == (doe - (doe \div 1460) + (doe \div 36524) - (doe \div 146096)) \div 365
        doy == doe - ((365 * yoe) + (yoe \div 4) - (yoe \div 100))
        mp == ((5 * doy) + 2) \div 153
        month == IF mp < 10 THEN mp + 3 ELSE mp - 9
    IN  [year |-> yoe + (((days + 719468) \div 146097) * 400) + (IF month <= 2 THEN 1 ELSE 0),
         month |-> month,
         day |-> doy - (((153 * mp) + 2) \div 5) + 1]

\* chrono::DateTime::from_timestamp(secs, 0).naive_utc()
from_timestamp(secs) ==
    LET naive(date, sod) ==
            Some([year |-> date.year, month |-> date.month, day |-> date.day,
                  hour |-> sod \div 3600, minute |-> (sod \div 60) % 60,
                  second |-> sod % 60])
    IN  naive(CivilFromDays(I64DivDay(secs)), I64ModDay(secs))

(***************************************************************************)
(* searcher.rs                                                             *)
(***************************************************************************)
Ok(v) == <<"Ok", v>>
Err(message) == <<"Err", message>>

\* mutant: GxStat is left out of data[7]
BaseMessage_NoGxStat(mac, nazo, key_input, frame) ==
    LET mac_lower == Or32(Shl32(ToU32(mac[5]), 8), ToU32(mac[6]))
        mac_upper == Or32(Or32(Or32(ToU32(mac[1]), Shl32(ToU32(mac[2]), 8)),
                               Shl32(ToU32(mac[3]), 16)),
                          Shl32(ToU32(mac[4]), 24))
        data7 == Xor32(mac_upper, frame)
    IN  <<swap_bytes_32(nazo[1]), swap_bytes_32(nazo[2]), swap_bytes_32(nazo[3]),
          swap_bytes_32(nazo[4]), swap_bytes_32(nazo[5]),
          U32(0, 0),
          mac_lower,
          swap_bytes_32(data7),
          U32(0, 0), U32(0, 0),
          U32(0, 0), U32(0, 0),
          swap_bytes_32(key_input),
          U32(32768, 0),
          U32(0, 0),
          U32(0, 416)>>

\* let mut base_message = [0u32; 16] and the assignments that follow it;
\* base_message[i] of the code is base_message[i + 1] here
BaseMessage(mac, nazo, key_input, frame) ==
    LET mac_lower == Or32(Shl32(ToU32(mac[5]), 8), ToU32(mac[6]))
        mac_upper == Or32(Or32(Or32(ToU32(mac[1]), Shl32(ToU32(mac[2]), 8)),
                               Shl32(ToU32(mac[3]), 16)),
                          Shl32(ToU32(mac[4]), 24))
        gx_stat == U32(1536, 0)   \* 0x06000000
        data7 == Xor32(Xor32(mac_upper, gx_stat), frame)
    IN  <<swap_bytes_32(nazo[1]), swap_bytes_32(nazo[2]), swap_bytes_32(nazo[3]),
          swap_bytes_32(nazo[4]), swap_bytes_32(nazo[5]),
          U32(0, 0),
          mac_lower,
          swap_bytes_32(data7),
          U32(0, 0), U32(0, 0),
          U32(0, 0), U32(0, 0),
          swap_bytes_32(key_input),
          U32(32768, 0),    \* 0x80000000
          U32(0, 0),
          U32(0, 416)>>     \* 0x000001A0

\* mutant: a mac longer than 6 bytes is accepted
new_AtLeastSixBytes(mac, nazo, hardware, key_input, frame) ==
    IF Len(mac) < 6 THEN Err("MAC address must be 6 bytes")
    ELSE IF Len(nazo) # 5 THEN Err("nazo must be 5 32-bit words")
    ELSE IF hardware \notin {"DS", "DS_LITE", "3DS"}
         THEN Err("Hardware must be DS, DS_LITE, or 3DS")
    ELSE Ok([hardware |-> hardware,
             base_message |-> BaseMessage(mac, nazo, key_input, frame)])

\* mutant: the hardware string is stored unchecked
new_AnyHardware(mac, nazo, hardware, key_input, frame) ==
    IF Len(mac) # 6 THEN Err("MAC address must be 6 bytes")
    ELSE IF Len(nazo) # 5 THEN Err("nazo must be 5 32-bit words")
    ELSE Ok([hardware |-> hardware,
             base_message |-> BaseMessage(mac, nazo, key_input, frame)])

\* IntegratedSeedSearcher::new
new(mac, nazo, hardware, key_input, frame) ==
    IF Len(mac) # 6 THEN Err("MAC address must be 6 bytes")
    ELSE IF Len(nazo) # 5 THEN Err("nazo must be 5 32-bit words")
    ELSE IF hardware \notin {"DS", "DS_LITE", "3DS"}
         THEN Err("Hardware must be DS, DS_LITE, or 3DS")
    ELSE Ok([hardware |-> hardware,
             base_message |-> BaseMessage(mac, nazo, key_input, frame)])

\* IntegratedSeedSearcher::base_message and ::hardware
base_message(self) == self.base_message
hardware(self) == self.hardware

(***************************************************************************)
(* State                                                                   *)
(*   target_arch  the build: "wasm32" or "native" (cfg(target_arch))       *)
(*   ctor         None, or Some of the last call of new: its arguments and *)
(*                what it returned                                         *)
(*   searcher     None, or Some(the IntegratedSeedSearcher constructed)    *)
(*   call         None, or Some of the search call that has returned       *)
(*   ret          what that call returned: the records of the result       *)
(*                array, with the observations of the run                  *)
(*   lookup       None, or Some of the table accessor call that returned   *)
(*   workers      None, or Some of a search sharded over two workers: the  *)
(*                arguments of the whole search and of the two parts, and  *)
(*                per worker None or Some(the result its search returned)  *)
(*   progress     None, or Some of a search followed turn by turn: the     *)
(*                function, its arguments, the values the loops are at,    *)
(*                the array so far and whether it runs, returned or        *)
(*                panicked                                                 *)
(***************************************************************************)
VARIABLES target_arch, ctor, searcher, call, ret, lookup, workers, progress, rng,
          calculator

vars == <<target_arch, ctor, searcher, call, ret, lookup, workers, progress, rng, calculator>>

(***************************************************************************)
(* search_algorithms.rs                                                    *)
(***************************************************************************)
EPOCH_2000_UNIX == 946684800

\* SearchResult::new: the record a match appends
SearchResult_new(seed, hash, year, month, date, hour, minute, second, timer0, vcount) ==
    [seed |-> seed, hash |-> hash, year |-> year, month |-> month, date |-> date,
     hour |-> hour, minute |-> minute, second |-> second,
     timer0 |-> timer0, vcount |-> vcount]

\* mutant: a day after the last day of the date table is skipped
calculate_datetime_codes_SkipsPastTable(self, seconds_since_2000) ==
    IF I64IsNegative(seconds_since_2000) \/ I64DivDay(seconds_since_2000) >= 36525 THEN None
    ELSE LET time_index == I64ModDay(seconds_since_2000)
             date_index == I64DivDay(seconds_since_2000)
         IN  Some(<<get_time_code_for_hardware(time_index, hardware(self)),
                    get_date_code(date_index)>>)

\* mutant: a second before 2000-01-01 is not skipped; its indices, cast to
\* u32, are past both tables
calculate_datetime_codes_NoSkip(self, seconds_since_2000) ==
    IF I64IsNegative(seconds_since_2000)
    THEN Some(<<get_time_code_for_hardware(2147483647, hardware(self)),
                get_date_code(2147483647)>>)
    ELSE LET time_index == I64ModDay(seconds_since_2000)
             date_index == I64DivDay(seconds_since_2000)
         IN  Some(<<get_time_code_for_hardware(time_index, hardware(self)),
                    get_date_code(date_index)>>)

calculate_datetime_codes(self, seconds_since_2000) ==
    IF I64IsNegative(seconds_since_2000) THEN None
    ELSE LET time_index == I64ModDay(seconds_since_2000)
             date_index == I64DivDay(seconds_since_2000)
         IN  Some(<<get_time_code_for_hardware(time_index, hardware(self)),
                    get_date_code(date_index)>>)

\* mutant: the seconds are read as a Unix timestamp, EPOCH_2000_UNIX not added
generate_display_datetime_UnixEpoch(self, seconds_since_2000) ==
    LET fields(result_datetime) ==
            IF result_datetime = None THEN None
            ELSE Some(<<result_datetime[1].year, result_datetime[1].month,
                        result_datetime[1].day, result_datetime[1].hour,
                        result_datetime[1].minute, result_datetime[1].second>>)
    IN  fields(from_timestamp(seconds_since_2000))

generate_display_datetime(self, seconds_since_2000) ==
    LET fields(result_datetime) ==
            IF result_datetime = None THEN None
            ELSE Some(<<result_datetime[1].year, result_datetime[1].month,
                        result_datetime[1].day, result_datetime[1].hour,
                        result_datetime[1].minute, result_datetime[1].second>>)
    IN  fields(from_timestamp(I64Add(seconds_since_2000, I64FromInt(EPOCH_2000_UNIX))))

\* mutant: (vcount << 16) + timer0
build_message_AddsRegisters(self, timer0, vcount, date_code, time_code) ==
    [base_message(self) EXCEPT
        ![6] = swap_bytes_32(Add32(Shl32(ToU32(vcount), 16), ToU32(timer0))),
        ![9] = date_code,
        ![10] = time_code]

build_message(self, timer0, vcount, date_code, time_code) ==
    [base_message(self) EXCEPT
        ![6] = swap_bytes_32(Or32(Shl32(ToU32(vcount), 16), ToU32(timer0))),
        ![9] = date_code,
        ![10] = time_code]

\* mutant: {:08X}
HexDigits_Upper ==
    <<"0", "1", "2", "3", "4", "5", "6", "7", "8", "9", "A", "B", "C", "D", "E", "F">>

HexDigits ==
    <<"0", "1", "2", "3", "4", "5", "6", "7", "8", "9", "a", "b", "c", "d", "e", "f">>

\* {:08x} of one word, as the sequence of its characters
Hex08(value) ==
    <<HexDigits[(value[1] \div 4096) + 1], HexDigits[((value[1] \div 256) % 16) + 1],
      HexDigits[((value[1] \div 16) % 16) + 1], HexDigits[(value[1] % 16) + 1],
      HexDigits[(value[2] \div 4096) + 1], HexDigits[((value[2] \div 256) % 16) + 1],
      HexDigits[((value[2] \div 16) % 16) + 1], HexDigits[(value[2] % 16) + 1]>>

hash_to_hex_string(h0, h1, h2, h3, h4) ==
    Hex08(h0) \o Hex08(h1) \o Hex08(h2) \o Hex08(h3) \o Hex08(h4)

\* js_sys::Array::new(), with nothing observed yet.  `records` is the array;
\* `digests` lists the digest computations of the run with the messages
\* hashed, `branches` the arms of get_time_code_for_hardware it took,
\* `displays` counts the calls of generate_display_datetime.
NewArray == [records |-> << >>, digests |-> << >>, branches |-> {}, displays |-> 0]

\* mutant: the datetime is reconstructed before the target set is consulted
check_and_add_result_Eager(self, seed, h0, h1, h2, h3, h4, seconds_since_2000, timer0, vcount, target_seeds, results) ==
    LET push(datetime) ==
            IF seed \in target_seeds /\ datetime # None
            THEN [results EXCEPT
                    !.displays = @ + 1,
                    !.records = Append(@,
                       SearchResult_new(seed, hash_to_hex_string(h0, h1, h2, h3, h4),
                                        datetime[1][1], datetime[1][2], datetime[1][3],
                                        datetime[1][4], datetime[1][5], datetime[1][6],
                                        timer0, vcount))]
            ELSE [results EXCEPT !.displays = @ + 1]
    IN  push(generate_display_datetime(self, seconds_since_2000))

check_and_add_result(self, seed, h0, h1, h2, h3, h4, seconds_since_2000, timer0, vcount, target_seeds, results) ==
    IF seed \in target_seeds
    THEN LET push(datetime) ==
                 IF datetime # None
                 THEN [results EXCEPT
                         !.displays = @ + 1,
                         !.records = Append(@,
                            SearchResult_new(seed, hash_to_hex_string(h0, h1, h2, h3, h4),
                                             datetime[1][1], datetime[1][2], datetime[1][3],
                                             datetime[1][4], datetime[1][5], datetime[1][6],
                                             timer0, vcount))]
                 ELSE [results EXCEPT !.displays = @ + 1]
         IN  push(generate_display_datetime(self, seconds_since_2000))
    ELSE results

\* mutant: an invalid start falls back to the epoch
base_seconds_since_2000_DefaultsToEpoch(year_start, month_start, date_start, hour_start, minute_start, second_start) ==
    LET and_then(date) ==
            IF date = None THEN None
            ELSE and_hms_opt(date[1], hour_start, minute_start, second_start)
        since_2000(start_datetime) ==
            IF start_datetime = None THEN Some(I64FromInt(0))
            ELSE Some(I64Sub(timestamp(start_datetime[1]), I64FromInt(EPOCH_2000_UNIX)))
    IN  since_2000(and_then(from_ymd_opt(year_start, month_start, date_start)))

\* the start of both search functions: the start datetime as seconds since
\* 2000-01-01 00:00:00, None when it is no calendar date or time of day
base_seconds_since_2000(year_start, month_start, date_start, hour_start, minute_start, second_start) ==
    LET and_then(date) ==
            IF date = None THEN None
            ELSE and_hms_opt(date[1], hour_start, minute_start, second_start)
        since_2000(start_datetime) ==
            IF start_datetime = None THEN None
            ELSE Some(I64Sub(timestamp(start_datetime[1]), I64FromInt(EPOCH_2000_UNIX)))
    IN  since_2000(and_then(from_ymd_opt(year_start, month_start, date_start)))

ZeroMessage ==
    <<U32(0, 0), U32(0, 0), U32(0, 0), U32(0, 0), U32(0, 0), U32(0, 0), U32(0, 0), U32(0, 0),
      U32(0, 0), U32(0, 0), U32(0, 0), U32(0, 0), U32(0, 0), U32(0, 0), U32(0, 0), U32(0, 0)>>

\* process_simd_batch, one turn of the loop that prepares the four messages
SimdLane(self, second_offset, base, timer0, vcount, i) ==
    LET current_seconds_since_2000 == I64Add(base, I64FromInt(second_offset + i))
        lane(codes, swapped_timer_vcount) ==
            IF codes = None
            THEN [valid |-> FALSE, seconds |-> I64FromInt(0), message |-> ZeroMessage]
            ELSE [valid |-> TRUE, seconds |-> current_seconds_since_2000,
                  message |-> [base_message(self) EXCEPT ![6] = swapped_timer_vcount,
                                                         ![9] = codes[1][2],
                                                         ![10] = codes[1][1]]]
    IN  lane(calculate_datetime_codes(self, current_seconds_since_2000),
             swap_bytes_32(Or32(Shl32(ToU32(vcount), 16), ToU32(timer0))))

\* valid_messages, seconds_batch and messages after that loop
SimdLanes(self, second_offset, base, timer0, vcount) ==
    <<SimdLane(self, second_offset, base, timer0, vcount, 0),
      SimdLane(self, second_offset, base, timer0, vcount, 1),
      SimdLane(self, second_offset, base, timer0, vcount, 2),
      SimdLane(self, second_offset, base, timer0, vcount, 3)>>

SimdMessages(lanes) ==
    lanes[1].message \o lanes[2].message \o lanes[3].message \o lanes[4].message

(***************************************************************************)
(* Inputs of the operations                                                *)
(***************************************************************************)
MaxRange == 5

MacInputs ==
    {<<0, 9, 191, 18, 52, 86>>, <<0, 9, 191, 18, 52>>, <<0, 9, 191, 18, 52, 86, 120>>}

Nazo5 == <<U32(545, 24336), U32(256, 0), U32(49152, 0), U32(0, 32767), U32(0, 0)>>

NazoInputs == {Nazo5, SubSeq(Nazo5, 1, 4), Nazo5 \o <<U32(0, 1)>>}

HardwareInputs == {"DS", "DS_LITE", "3DS", "INVALID", "ds"}

\* <<key_input, frame>>
KeyFrameInputs == {<<U32(0, 5), U32(0, 8)>>, <<U32(65535, 65535), U32(65535, 65535)>>}

Start(year, month, date, hour, minute, second) ==
    [year |-> year, month |-> month, date |-> date,
     hour |-> hour, minute |-> minute, second |-> second]

\* two seconds before the table epoch, before a leap day, before the end of
\* the date table; then four starts that are no date or no time of day
StartInputs ==
    {Start(1999, 12, 31, 23, 59, 58), Start(2024, 2, 28, 23, 59, 58),
     Start(2099, 12, 31, 23, 59, 58),
     Start(2012, 13, 1, 0, 0, 0), Start(2023, 2, 30, 12, 0, 0),
     Start(2012, 6, 15, 24, 0, 0), Start(2012, 6, 15, 10, 60, 0)}

\* <<timer0_min, timer0_max, vcount_min, vcount_max>>
RegisterInputs ==
    {<<3193, 3194, 96, 97>>, <<65536, 65536, 0, 1>>, <<3194, 3193, 96, 96>>,
     <<3193, 3193, 97, 96>>}

TargetInputs == {"none", "miss", "one", "many"}

StartSeconds(start) ==
    base_seconds_since_2000(start.year, start.month, start.date,
                            start.hour, start.minute, start.second)

ValidSearchers ==
    {r[2] : r \in {c \in {new(m, z, h, kf[1], kf[2]) :
                             m \in MacInputs, z \in NazoInputs,
                             h \in HardwareInputs, kf \in KeyFrameInputs} : c[1] = "Ok"}}

RegisterPairs ==
    UNION {{<<t, v>> : t \in r[1]..r[2], v \in r[3]..r[4]} : r \in RegisterInputs}

ValidBases == {b[1] : b \in {c \in {StartSeconds(st) : st \in StartInputs} : c # None}}

(***************************************************************************)
(* Digest tables.  Every message block (and every batch of four) that the  *)
(* inputs above can build is hashed once, when the table is built; the     *)
(* search reads the table and computes the digest of any other block.      *)
(***************************************************************************)
MessagesAt(self, base, k) ==
    LET messages(codes) ==
            IF codes = None THEN {}
            ELSE {build_message(self, p[1], p[2], codes[1][2], codes[1][1]) :
                     p \in RegisterPairs}
    IN  messages(calculate_datetime_codes(self, I64Add(base, I64FromInt(k))))

MessageUniverse ==
    {ZeroMessage} \cup
    UNION {MessagesAt(self, b, k) : self \in ValidSearchers, b \in ValidBases,
                                    k \in 0..(MaxRange - 1)}

Sha1Table == [m \in MessageUniverse |-> calculate_pokemon_sha1(m)]

\* the digest of a block: read from the table when the table holds it
Sha1TableLookup(table, message) ==
    IF message \in DOMAIN table THEN table[message] ELSE calculate_pokemon_sha1(message)

calculate_pokemon_sha1_cached(message) == Sha1TableLookup(Sha1Table, message)

BatchUniverse ==
    {SimdMessages(SimdLanes(self, k, b, p[1], p[2])) :
        self \in ValidSearchers, b \in ValidBases, p \in RegisterPairs,
        k \in {j \in 0..MaxRange : j % 4 = 0 /\ j + 4 <= MaxRange}}

Sha1SimdTable == [m \in BatchUniverse |-> calculate_pokemon_sha1_simd_wasm32(m)]

\* the implementation compiled for every other target: four scalar digests
calculate_pokemon_sha1_simd_fallback(messages) ==
    LET four(table) ==
            Sha1TableLookup(table, SubSeq(messages, 1, 16))
            \o Sha1TableLookup(table, SubSeq(messages, 17, 32))
            \o Sha1TableLookup(table, SubSeq(messages, 33, 48))
            \o Sha1TableLookup(table, SubSeq(messages, 49, 64))
    IN  four(Sha1Table)

\* crate::sha1_simd::calculate_pokemon_sha1_simd, as the build compiled it
calculate_pokemon_sha1_simd(messages) ==
    IF target_arch = "wasm32"
    THEN LET read(table) ==
                 IF messages \in DOMAIN table THEN table[messages]
                 ELSE calculate_pokemon_sha1_simd_wasm32(messages)
         IN  read(Sha1SimdTable)
    ELSE calculate_pokemon_sha1_simd_fallback(messages)

(***************************************************************************)
(* search_algorithms.rs: the search loops                                  *)
(***************************************************************************)
\* one turn of a `for` loop runs to its end before the next one starts:
\* `rest` is what follows, applied to the value the turn leaves
AndThen(turn, rest(_)) == CHOOSE out \in {rest(v) : v \in {turn}} : TRUE

\* the end of a scalar candidate: the seed of the digest h = (h0, ..., h4)
\* is derived and checked against the targets
SeedOfDigest(self, h, seconds_since_2000, timer0, vcount, target_seeds, results) ==
    check_and_add_result(self, calculate_pokemon_seed_from_hash(h[1], h[2]),
                         h[1], h[2], h[3], h[4], h[5],
                         seconds_since_2000, timer0, vcount, target_seeds, results)

\* search_seeds_integrated, the body of the loop over second_offset
ScalarCandidate(self, base, timer0, vcount, second_offset, target_set, results) ==
    LET current_seconds_since_2000 == I64Add(base, I64FromInt(second_offset))
        hashed(message) ==
            SeedOfDigest(self, calculate_pokemon_sha1_cached(message),
                    current_seconds_since_2000, timer0, vcount, target_set,
                    [results EXCEPT
                        !.digests = Append(@, [path |-> "scalar", timer0 |-> timer0,
                                               vcount |-> vcount,
                                               second_offset |-> second_offset,
                                               message |-> message]),
                        !.branches = @ \cup {hardware_branch(hardware(self))}])
        candidate(codes) ==
            IF codes = None THEN results
            ELSE hashed(build_message(self, timer0, vcount, codes[1][2], codes[1][1]))
    IN  candidate(calculate_datetime_codes(self, current_seconds_since_2000))

RECURSIVE ScalarSecondLoop_StopsEarly(_, _, _, _, _, _, _, _)
\* mutant: for second_offset in 0..range_seconds - 1
ScalarSecondLoop_StopsEarly(self, base, timer0, vcount, second_offset, range_seconds, target_set, results) ==
    IF second_offset + 1 >= range_seconds THEN results
    ELSE AndThen(ScalarCandidate(self, base, timer0, vcount, second_offset, target_set,
                                 results),
                 LAMBDA r : ScalarSecondLoop_StopsEarly(self, base, timer0, vcount,
                                                        second_offset + 1, range_seconds,
                                                        target_set, r))

RECURSIVE ScalarSecondLoop(_, _, _, _, _, _, _, _)
\* for second_offset in 0..range_seconds
ScalarSecondLoop(self, base, timer0, vcount, second_offset, range_seconds, target_set, results) ==
    IF second_offset >= range_seconds THEN results
    ELSE AndThen(ScalarCandidate(self, base, timer0, vcount, second_offset, target_set,
                                 results),
                 LAMBDA r : ScalarSecondLoop(self, base, timer0, vcount, second_offset + 1,
                                             range_seconds, target_set, r))

RECURSIVE ScalarVCountLoop(_, _, _, _, _, _, _, _)
\* for vcount in vcount_min..=vcount_max
ScalarVCountLoop(self, base, timer0, vcount, vcount_max, range_seconds, target_set, results) ==
    IF vcount > vcount_max THEN results
    ELSE AndThen(ScalarSecondLoop(self, base, timer0, vcount, 0, range_seconds,
                                  target_set, results),
                 LAMBDA r : ScalarVCountLoop(self, base, timer0, vcount + 1, vcount_max,
                                             range_seconds, target_set, r))

RECURSIVE ScalarTimer0Loop(_, _, _, _, _, _, _, _, _)
\* for timer0 in timer0_min..=timer0_max
ScalarTimer0Loop(self, base, timer0, timer0_max, vcount_min, vcount_max, range_seconds, target_set, results) ==
    IF timer0 > timer0_max THEN results
    ELSE AndThen(ScalarVCountLoop(self, base, timer0, vcount_min, vcount_max,
                                  range_seconds, target_set, results),
                 LAMBDA r : ScalarTimer0Loop(self, base, timer0 + 1, timer0_max, vcount_min,
                                             vcount_max, range_seconds, target_set, r))

\* mutant: inserting a seed that is already present removes it
BTreeSet_Toggles(target_seeds) ==
    {target_seeds[i] : i \in {j \in 1..Len(target_seeds) :
        Cardinality({k \in 1..Len(target_seeds) : target_seeds[k] = target_seeds[j]}) % 2 = 1}}

\* let target_set: BTreeSet<u32> = target_seeds.iter().cloned().collect()
BTreeSet(target_seeds) == {target_seeds[i] : i \in 1..Len(target_seeds)}

\* mutant: vcount_max is excluded from the loop over vcount
search_seeds_integrated_ExclusiveVCount(self, year_start, month_start, date_start, hour_start, minute_start, second_start, range_seconds, timer0_min, timer0_max, vcount_min, vcount_max, target_seeds) ==
    LET start == base_seconds_since_2000(year_start, month_start, date_start,
                                         hour_start, minute_start, second_start)
    IN  IF start = None THEN NewArray
        ELSE ScalarTimer0Loop(self, start[1], timer0_min, timer0_max, vcount_min,
                              vcount_max - 1, range_seconds, BTreeSet(target_seeds), NewArray)

\* mutant: a register range given backwards is searched forwards
search_seeds_integrated_SwapsBounds(self, year_start, month_start, date_start, hour_start, minute_start, second_start, range_seconds, timer0_min, timer0_max, vcount_min, vcount_max, target_seeds) ==
    LET start == base_seconds_since_2000(year_start, month_start, date_start,
                                         hour_start, minute_start, second_start)
    IN  IF start = None THEN NewArray
        ELSE ScalarTimer0Loop(self, start[1],
                IF timer0_min <= timer0_max THEN timer0_min ELSE timer0_max,
                IF timer0_min <= timer0_max THEN timer0_max ELSE timer0_min,
                IF vcount_min <= vcount_max THEN vcount_min ELSE vcount_max,
                IF vcount_min <= vcount_max THEN vcount_max ELSE vcount_min,
                range_seconds, BTreeSet(target_seeds), NewArray)

search_seeds_integrated(self, year_start, month_start, date_start, hour_start, minute_start, second_start, range_seconds, timer0_min, timer0_max, vcount_min, vcount_max, target_seeds) ==
    LET start == base_seconds_since_2000(year_start, month_start, date_start,
                                         hour_start, minute_start, second_start)
    IN  IF start = None THEN NewArray
        ELSE ScalarTimer0Loop(self, start[1], timer0_min, timer0_max, vcount_min, vcount_max,
                              range_seconds, BTreeSet(target_seeds), NewArray)

\* process_simd_batch, one turn of the loop over the four results
SimdLaneResult(self, lanes, hash_results, i, timer0, vcount, target_seeds, results) ==
    IF ~lanes[i + 1].valid THEN results
    ELSE check_and_add_result(self,
            calculate_pokemon_seed_from_hash(hash_results[(i * 5) + 1],
                                             hash_results[(i * 5) + 2]),
            hash_results[(i * 5) + 1], hash_results[(i * 5) + 2], hash_results[(i * 5) + 3],
            hash_results[(i * 5) + 4], hash_results[(i * 5) + 5],
            lanes[i + 1].seconds, timer0, vcount, target_seeds, results)

\* mutant: the lanes are read from the last to the first
SimdBatchResults_LastLaneFirst(self, lanes, hash_results, timer0, vcount, target_seeds, results) ==
    SimdLaneResult(self, lanes, hash_results, 0, timer0, vcount, target_seeds,
      SimdLaneResult(self, lanes, hash_results, 1, timer0, vcount, target_seeds,
        SimdLaneResult(self, lanes, hash_results, 2, timer0, vcount, target_seeds,
          SimdLaneResult(self, lanes, hash_results, 3, timer0, vcount, target_seeds,
                         results))))

SimdBatchResults(self, lanes, hash_results, timer0, vcount, target_seeds, results) ==
    SimdLaneResult(self, lanes, hash_results, 3, timer0, vcount, target_seeds,
      SimdLaneResult(self, lanes, hash_results, 2, timer0, vcount, target_seeds,
        SimdLaneResult(self, lanes, hash_results, 1, timer0, vcount, target_seeds,
          SimdLaneResult(self, lanes, hash_results, 0, timer0, vcount, target_seeds,
                         results))))

process_simd_batch(self, second_offset, base, timer0, vcount, target_seeds, results) ==
    LET batch(lanes, messages) ==
            SimdBatchResults(self, lanes, calculate_pokemon_sha1_simd(messages),
                timer0, vcount, target_seeds,
                [results EXCEPT
                    !.digests = Append(@, [path |-> "simd", timer0 |-> timer0,
                                           vcount |-> vcount,
                                           second_offset |-> second_offset,
                                           valid |-> <<lanes[1].valid, lanes[2].valid,
                                                       lanes[3].valid, lanes[4].valid>>,
                                           messages |-> messages]),
                    !.branches = @ \cup (IF \E j \in 1..4 : lanes[j].valid
                                         THEN {hardware_branch(hardware(self))} ELSE {})])
    IN  batch(SimdLanes(self, second_offset, base, timer0, vcount),
              SimdMessages(SimdLanes(self, second_offset, base, timer0, vcount)))

\* process_remaining_seconds, the body of its loop
RemainingCandidate(self, second_offset, i, base, timer0, vcount, target_seeds, results) ==
    LET current_second_offset == second_offset + i
        current_seconds_since_2000 == I64Add(base, I64FromInt(current_second_offset))
        hashed(message) ==
            SeedOfDigest(self, calculate_pokemon_sha1_cached(message),
                    current_seconds_since_2000, timer0, vcount, target_seeds,
                    [results EXCEPT
                        !.digests = Append(@, [path |-> "remaining", timer0 |-> timer0,
                                               vcount |-> vcount,
                                               second_offset |-> current_second_offset,
                                               message |-> message]),
                        !.branches = @ \cup {hardware_branch(hardware(self))}])
        candidate(codes) ==
            IF codes = None THEN results
            ELSE hashed(build_message(self, timer0, vcount, codes[1][2], codes[1][1]))
    IN  candidate(calculate_datetime_codes(self, current_seconds_since_2000))

RECURSIVE RemainingLoop(_, _, _, _, _, _, _, _, _)
\* for i in 0..batch_size
RemainingLoop(self, second_offset, i, batch_size, base, timer0, vcount, target_seeds, results) ==
    IF i >= batch_size THEN results
    ELSE AndThen(RemainingCandidate(self, second_offset, i, base, timer0, vcount,
                                    target_seeds, results),
                 LAMBDA r : RemainingLoop(self, second_offset, i + 1, batch_size, base,
                                          timer0, vcount, target_seeds, r))

process_remaining_seconds(self, second_offset, batch_size, base, timer0, vcount, target_seeds, results) ==
    RemainingLoop(self, second_offset, 0, batch_size, base, timer0, vcount,
                  target_seeds, results)

\* std::cmp::min
cmp_min(x, y) == IF x <= y THEN x ELSE y

\* mutant: the seconds left after the last full batch are not searched
SimdBatch_DropRemainder(self, base, timer0, vcount, second_offset, range_seconds, target_set, results) ==
    IF range_seconds - second_offset >= 4
    THEN process_simd_batch(self, second_offset, base, timer0, vcount, target_set, results)
    ELSE results

\* search_seeds_integrated_simd, the body of the loop over second_offset
SimdBatch(self, base, timer0, vcount, second_offset, range_seconds, target_set, results) ==
    LET batch_size == cmp_min(4, range_seconds - second_offset)
    IN  IF batch_size = 4
        THEN process_simd_batch(self, second_offset, base, timer0, vcount,
                                target_set, results)
        ELSE process_remaining_seconds(self, second_offset, batch_size, base, timer0, vcount,
                                       target_set, results)

RECURSIVE SimdSecondLoop_StepsByThree(_, _, _, _, _, _, _, _)
\* mutant: for second_offset in (0..range_seconds).step_by(3)
SimdSecondLoop_StepsByThree(self, base, timer0, vcount, second_offset, range_seconds, target_set, results) ==
    IF second_offset >= range_seconds THEN results
    ELSE AndThen(SimdBatch(self, base, timer0, vcount, second_offset, range_seconds,
                           target_set, results),
                 LAMBDA r : SimdSecondLoop_StepsByThree(self, base, timer0, vcount,
                                                        second_offset + 3, range_seconds,
                                                        target_set, r))

RECURSIVE SimdSecondLoop(_, _, _, _, _, _, _, _)
\* for second_offset in (0..range_seconds).step_by(4)
SimdSecondLoop(self, base, timer0, vcount, second_offset, range_seconds, target_set, results) ==
    IF second_offset >= range_seconds THEN results
    ELSE AndThen(SimdBatch(self, base, timer0, vcount, second_offset, range_seconds,
                           target_set, results),
                 LAMBDA r : SimdSecondLoop(self, base, timer0, vcount, second_offset + 4,
                                           range_seconds, target_set, r))

RECURSIVE SimdVCountLoop(_, _, _, _, _, _, _, _)
SimdVCountLoop(self, base, timer0, vcount, vcount_max, range_seconds, target_set, results) ==
    IF vcount > vcount_max THEN results
    ELSE AndThen(SimdSecondLoop(self, base, timer0, vcount, 0, range_seconds,
                                target_set, results),
                 LAMBDA r : SimdVCountLoop(self, base, timer0, vcount + 1, vcount_max,
                                           range_seconds, target_set, r))

RECURSIVE SimdTimer0Loop(_, _, _, _, _, _, _, _, _)
SimdTimer0Loop(self, base, timer0, timer0_max, vcount_min, vcount_max, range_seconds, target_set, results) ==
    IF timer0 > timer0_max THEN results
    ELSE AndThen(SimdVCountLoop(self, base, timer0, vcount_min, vcount_max,
                                range_seconds, target_set, results),
                 LAMBDA r : SimdTimer0Loop(self, base, timer0 + 1, timer0_max, vcount_min,
                                           vcount_max, range_seconds, target_set, r))

search_seeds_integrated_simd(self, year_start, month_start, date_start, hour_start, minute_start, second_start, range_seconds, timer0_min, timer0_max, vcount_min, vcount_max, target_seeds) ==
    LET start == base_seconds_since_2000(year_start, month_start, date_start,
                                         hour_start, minute_start, second_start)
    IN  IF start = None THEN NewArray
        ELSE SimdTimer0Loop(self, start[1], timer0_min, timer0_max, vcount_min, vcount_max,
                            range_seconds, BTreeSet(target_seeds), NewArray)

(***************************************************************************)
(* The callers of the engine                                               *)
(***************************************************************************)
\* a seed no candidate of the inputs derives (0xDEADBEEF)
MissSeed == U32(57005, 48879)

\* the seed the engine derives for one combination, as a caller computes it
\* (integrated_search_tests.rs); MissSeed where the combination has none
KnownSeed(self, start, timer0, vcount, second_offset) ==
    LET codes_at(base) ==
            IF base = None THEN None
            ELSE calculate_datetime_codes(self, I64Add(base[1], I64FromInt(second_offset)))
        message_of(codes) ==
            IF codes = None THEN ZeroMessage
            ELSE build_message(self, timer0, vcount, codes[1][2], codes[1][1])
        seed_of(codes, h) ==
            IF codes = None THEN MissSeed ELSE calculate_pokemon_seed_from_hash(h[1], h[2])
    IN  seed_of(codes_at(StartSeconds(start)),
                calculate_pokemon_sha1_cached(message_of(codes_at(StartSeconds(start)))))

\* the registers of the known combinations of a register range: its first
\* and last pair, those of the range read backwards when it is empty
KnownRegisters(regs) ==
    <<cmp_min(regs[1], regs[2]), cmp_min(regs[3], regs[4]),
      regs[1] + regs[2] - cmp_min(regs[1], regs[2]),
      regs[3] + regs[4] - cmp_min(regs[3], regs[4])>>

TargetSeeds(self, start, regs, which) ==
    LET known == KnownRegisters(regs)
        targets(first_0, first_2, last_3) ==
            IF which = "none" THEN << >>
            ELSE IF which = "miss" THEN <<MissSeed>>
            ELSE IF which = "one" THEN <<first_2>>
            ELSE <<last_3, first_0, first_2, last_3>>
    IN  targets(KnownSeed(self, start, known[1], known[2], 0),
                KnownSeed(self, start, known[1], known[2], 2),
                KnownSeed(self, start, known[3], known[4], 3))

SearchArgs(self, start, range_seconds, regs, which) ==
    [year_start |-> start.year, month_start |-> start.month, date_start |-> start.date,
     hour_start |-> start.hour, minute_start |-> start.minute,
     second_start |-> start.second,
     range_seconds |-> range_seconds,
     timer0_min |-> regs[1], timer0_max |-> regs[2],
     vcount_min |-> regs[3], vcount_max |-> regs[4],
     target_seeds |-> TargetSeeds(self, start, regs, which)]

CallScalar(self, args) ==
    search_seeds_integrated(self, args.year_start, args.month_start, args.date_start,
        args.hour_start, args.minute_start, args.second_start, args.range_seconds,
        args.timer0_min, args.timer0_max, args.vcount_min, args.vcount_max,
        args.target_seeds)

CallSimd(self, args) ==
    search_seeds_integrated_simd(self, args.year_start, args.month_start, args.date_start,
        args.hour_start, args.minute_start, args.second_start, args.range_seconds,
        args.timer0_min, args.timer0_max, args.vcount_min, args.vcount_max,
        args.target_seeds)

(***************************************************************************)
(* The state machine                                                       *)
(***************************************************************************)
Init ==
    /\ target_arch \in {"wasm32", "native"}
    /\ ctor = None
    /\ searcher = None
    /\ call = None
    /\ ret = None
    /\ lookup = None
    /\ workers = None
    /\ progress = None
    /\ rng = None
    /\ calculator = None

\* new IntegratedSeedSearcher(mac, nazo, hardware, key_input, frame)
New ==
    /\ searcher = None
    /\ call = None
    /\ \E m \in MacInputs, z \in NazoInputs, h \in HardwareInputs, kf \in KeyFrameInputs :
          \E result \in {new(m, z, h, kf[1], kf[2])} :
              /\ ctor' = Some([mac |-> m, nazo |-> z, hardware |-> h,
                               key_input |-> kf[1], frame |-> kf[2],
                               result |-> result[1],
                               error |-> IF result[1] = "Err" THEN result[2] ELSE ""])
              /\ searcher' = IF result[1] = "Ok" THEN Some(result[2]) ELSE None
    /\ UNCHANGED <<target_arch, call, ret, lookup, workers, progress, rng, calculator>>

\* mutant: build_message writes words 5, 8 and 9 into the template itself
self_after_search_WritesTemplate(self, args) ==
    [self EXCEPT !.base_message = build_message(self, args.timer0_min, args.vcount_min,
                                                U32(0, 0), U32(0, 0))]

\* the searcher a search leaves: both searches take `&self` and write no
\* field of it; build_message works on a copy (let mut message = self.base_message)
self_after_search(self, args) == self

\* searcher.search_seeds_integrated(...)
Search ==
    /\ searcher # None
    /\ call = None
    /\ \E st \in StartInputs, rs \in 0..MaxRange, rg \in RegisterInputs, tg \in TargetInputs :
          \E args \in {SearchArgs(searcher[1], st, rs, rg, tg)} :
              /\ call' = Some([fn |-> "search_seeds_integrated", args |-> args])
              /\ ret' = Some(CallScalar(searcher[1], args))
              /\ searcher' = Some(self_after_search(searcher[1], args))
    /\ UNCHANGED <<target_arch, ctor, lookup, workers, progress, rng, calculator>>

\* searcher.search_seeds_integrated_simd(...)
SearchSimd ==
    /\ searcher # None
    /\ call = None
    /\ \E st \in StartInputs, rs \in 0..MaxRange, rg \in RegisterInputs, tg \in TargetInputs :
          \E args \in {SearchArgs(searcher[1], st, rs, rg, tg)} :
              /\ call' = Some([fn |-> "search_seeds_integrated_simd", args |-> args])
              /\ ret' = Some(CallSimd(searcher[1], args))
              /\ searcher' = Some(self_after_search(searcher[1], args))
    /\ UNCHANGED <<target_arch, ctor, lookup, workers, progress, rng, calculator>>

\* the caller takes the result array; the searcher is ready for the next call
TakeResults ==
    /\ call # None
    /\ call' = None
    /\ ret' = None
    /\ UNCHANGED <<target_arch, ctor, searcher, lookup, workers, progress, rng, calculator>>

Next == New \/ Search \/ SearchSimd \/ TakeResults

Spec == Init /\ [][Next]_vars

(***************************************************************************)
(* The table accessors, called on their own                                *)
(***************************************************************************)
MaxBeyond == 3

\* indices of the time table, some past its end, and a large one
TimeIndexInputs == (0..(86400 + MaxBeyond)) \cup {2147483647}

\* indices of the date table, some past its end, and a large one
DateIndexInputs == (0..(36525 + MaxBeyond)) \cup {2147483647}

\* TimeCodeGenerator::get_time_code(seconds_of_day)
GetTimeCode ==
    /\ lookup = None
    /\ \E k \in TimeIndexInputs :
          lookup' = Some([fn |-> "get_time_code", index |-> k, value |-> get_time_code(k)])
    /\ UNCHANGED <<target_arch, ctor, searcher, call, ret, workers, progress, rng, calculator>>

\* DateCodeGenerator::get_date_code(days_since_2000)
GetDateCode ==
    /\ lookup = None
    /\ \E k \in DateIndexInputs :
          lookup' = Some([fn |-> "get_date_code", index |-> k, value |-> get_date_code(k)])
    /\ UNCHANGED <<target_arch, ctor, searcher, call, ret, workers, progress, rng, calculator>>

\* TimeCodeGenerator::get_time_code_for_hardware(seconds_of_day, hardware)
GetTimeCodeForHardware ==
    /\ lookup = None
    /\ \E k \in TimeIndexInputs, h \in HardwareInputs :
          lookup' = Some([fn |-> "get_time_code_for_hardware", index |-> k, hardware |-> h,
                          value |-> get_time_code_for_hardware(k, h)])
    /\ UNCHANGED <<target_arch, ctor, searcher, call, ret, workers, progress, rng, calculator>>

\* the caller drops the value
DropLookup ==
    /\ lookup # None
    /\ lookup' = None
    /\ UNCHANGED <<target_arch, ctor, searcher, call, ret, workers, progress, rng, calculator>>

NextTables == GetTimeCode \/ GetDateCode \/ GetTimeCodeForHardware \/ DropLookup

SpecTables == Init /\ [][NextTables]_vars

(***************************************************************************)
(* The digest functions, called on their own                               *)
(***************************************************************************)
OnesMessage == [i \in 1..16 |-> U32(65535, 65535)]

\* the one padded block of the three bytes "abc"
AbcMessage == <<U32(24930, 25472)>> \o SubSeq(ZeroMessage, 1, 14) \o <<U32(0, 24)>>

\* the one padded block of the empty byte string
EmptyMessage == <<U32(32768, 0)>> \o SubSeq(ZeroMessage, 1, 15)

BlockInputs == {ZeroMessage, OnesMessage, AbcMessage, EmptyMessage}

\* calculate_pokemon_sha1_simd(&messages), messages = four blocks in a row
Sha1Simd ==
    /\ lookup = None
    /\ \E b0 \in BlockInputs, b1 \in BlockInputs, b2 \in BlockInputs, b3 \in BlockInputs :
          \E messages \in {b0 \o b1 \o b2 \o b3} :
             lookup' = Some([fn |-> "calculate_pokemon_sha1_simd", messages |-> messages,
                             value |-> calculate_pokemon_sha1_simd(messages)])
    /\ UNCHANGED <<target_arch, ctor, searcher, call, ret, workers, progress, rng, calculator>>

\* calculate_pokemon_sha1(&message)
Sha1 ==
    /\ lookup = None
    /\ \E message \in BlockInputs \cup MessageUniverse :
          lookup' = Some([fn |-> "calculate_pokemon_sha1", message |-> message,
                          value |-> calculate_pokemon_sha1(message)])
    /\ UNCHANGED <<target_arch, ctor, searcher, call, ret, workers, progress, rng, calculator>>

\* digest words: 0, all ones, one bit at either end, and two words whose
\* four bytes all differ
HashWordInputs ==
    {U32(0, 0), U32(65535, 65535), U32(0, 1), U32(32768, 0), U32(4660, 22136),
     U32(39612, 57072)}

\* calculate_pokemon_seed_from_hash(h0, h1)
SeedFromHash ==
    /\ lookup = None
    /\ \E h0 \in HashWordInputs, h1 \in HashWordInputs :
          lookup' = Some([fn |-> "calculate_pokemon_seed_from_hash", h0 |-> h0, h1 |-> h1,
                          value |-> calculate_pokemon_seed_from_hash(h0, h1)])
    /\ UNCHANGED <<target_arch, ctor, searcher, call, ret, workers, progress, rng, calculator>>

NextDigest == Sha1Simd \/ Sha1 \/ SeedFromHash \/ DropLookup

SpecDigest == Init /\ [][NextDigest]_vars

(***************************************************************************)
(* The exported digest functions: calculate_sha1_hash (sha1.rs),           *)
(* calculate_sha1_simd and calculate_sha1_batch_simd (sha1_simd.rs)        *)
(***************************************************************************)
\* the largest batch_size of calculate_sha1_batch_simd
MaxBatch == 9

\* mutant: the scalar function returns the whole record, as the SIMD one does
calculate_sha1_hash_WholeRecord(message) ==
    IF Len(message) # 16 THEN <<U32(0, 0), U32(0, 0)>>
    ELSE LET whole(h) == <<calculate_pokemon_seed_from_hash(h[1], h[2])>> \o h
         IN  whole(calculate_pokemon_sha1(message))

\* calculate_sha1_hash: vec![seed, h1], vec![0, 0] for a wrong length
calculate_sha1_hash(message) ==
    IF Len(message) # 16 THEN <<U32(0, 0), U32(0, 0)>>
    ELSE LET seed_h1(h) == <<calculate_pokemon_seed_from_hash(h[1], h[2]), h[2]>>
         IN  seed_h1(calculate_pokemon_sha1(message))

\* calculate_sha1_simd: seed, h0, h1, h2, h3, h4 for each of the four
\* messages, vec![0] for a wrong length
calculate_sha1_simd(messages) ==
    IF Len(messages) # 64 THEN <<U32(0, 0)>>
    ELSE LET pushed(hash_results, i) ==
                 <<calculate_pokemon_seed_from_hash(hash_results[(i * 5) + 1],
                                                    hash_results[(i * 5) + 2])>>
                 \o SubSeq(hash_results, (i * 5) + 1, (i * 5) + 5)
             results(hash_results) ==
                 pushed(hash_results, 0) \o pushed(hash_results, 1)
                 \o pushed(hash_results, 2) \o pushed(hash_results, 3)
         IN  results(calculate_pokemon_sha1_simd(messages))

RECURSIVE BatchLoop(_, _, _, _)
\* for batch in 0..simd_batches
BatchLoop(messages, batch, simd_batches, results) ==
    IF batch >= simd_batches THEN results
    ELSE BatchLoop(messages, batch + 1, simd_batches,
            IF (batch * 64) + 64 <= Len(messages)
            THEN results \o calculate_sha1_simd(SubSeq(messages, (batch * 64) + 1,
                                                       (batch * 64) + 64))
            ELSE results)

RECURSIVE RemainderLoop(_, _, _, _, _)
\* for i in 0..remainder
RemainderLoop(messages, start_idx, i, remainder, results) ==
    IF i >= remainder THEN results
    ELSE RemainderLoop(messages, start_idx, i + 1, remainder,
            IF start_idx + (i * 16) + 16 <= Len(messages)
            THEN results \o calculate_sha1_hash(SubSeq(messages, start_idx + (i * 16) + 1,
                                                       start_idx + (i * 16) + 16))
            ELSE results)

\* calculate_sha1_batch_simd
calculate_sha1_batch_simd(messages, n_messages) ==
    LET simd_batches == n_messages \div 4
        remainder == n_messages % 4
    IN  RemainderLoop(messages, simd_batches * 64, 0, remainder,
                      BatchLoop(messages, 0, simd_batches, << >>))

\* the four blocks of BlockInputs in a row
BlockSeq == <<ZeroMessage, OnesMessage, AbcMessage, EmptyMessage>>

RECURSIVE BatchMessages(_, _)
\* n messages: the blocks of BlockSeq in turn, from block `first` on
BatchMessages(n, first) ==
    IF n = 0 THEN << >> ELSE BlockSeq[(first % 4) + 1] \o BatchMessages(n - 1, first + 1)

\* calculate_sha1_hash(&message): a block, or a block short of a word
Sha1Hash ==
    /\ lookup = None
    /\ \E b \in BlockInputs, cut \in {0, 1} :
          \E message \in {SubSeq(b, 1, 16 - cut)} :
             lookup' = Some([fn |-> "calculate_sha1_hash", messages |-> message,
                             batch_size |-> 1, value |-> calculate_sha1_hash(message)])
    /\ UNCHANGED <<target_arch, ctor, searcher, call, ret, workers, progress, rng, calculator>>

\* calculate_sha1_simd(&messages): four blocks, or four blocks short of a word
Sha1SimdExported ==
    /\ lookup = None
    /\ \E first \in 0..3, cut \in {0, 1} :
          \E messages \in {SubSeq(BatchMessages(4, first), 1, 64 - cut)} :
             lookup' = Some([fn |-> "calculate_sha1_simd", messages |-> messages,
                             batch_size |-> 4, value |-> calculate_sha1_simd(messages)])
    /\ UNCHANGED <<target_arch, ctor, searcher, call, ret, workers, progress, rng, calculator>>

\* calculate_sha1_batch_simd(&messages, batch_size): batch_size messages, or
\* one message fewer than batch_size says
Sha1BatchSimd ==
    /\ lookup = None
    /\ \E n_messages \in 0..MaxBatch, first \in 0..3, short \in {0, 1} :
          /\ short <= n_messages
          /\ \E messages \in {BatchMessages(n_messages - short, first)} :
                lookup' = Some([fn |-> "calculate_sha1_batch_simd", messages |-> messages,
                                batch_size |-> n_messages,
                                value |-> calculate_sha1_batch_simd(messages, n_messages)])
    /\ UNCHANGED <<target_arch, ctor, searcher, call, ret, workers, progress, rng, calculator>>

NextBatch == Sha1Hash \/ Sha1SimdExported \/ Sha1BatchSimd \/ DropLookup

SpecBatch == Init /\ [][NextBatch]_vars

(***************************************************************************)
(* Vocabulary of the properties                                            *)
(***************************************************************************)
RecordSet(records) == {records[i] : i \in 1..Len(records)}

StartOf(args) ==
    Start(args.year_start, args.month_start, args.date_start,
          args.hour_start, args.minute_start, args.second_start)

\* the start is a date of the Gregorian calendar and a time of day
IsCalendarDateTime(args) ==
    /\ args.month_start \in 1..12
    /\ args.date_start >= 1
    /\ args.date_start <= days_in_month(args.year_start, args.month_start)
    /\ args.hour_start <= 23
    /\ args.minute_start <= 59
    /\ args.second_start <= 59

\* the calendar, one second at a time
NextSecond(dt) ==
    IF dt.second < 59 THEN [dt EXCEPT !.second = @ + 1]
    ELSE IF dt.minute < 59 THEN [dt EXCEPT !.second = 0, !.minute = @ + 1]
    ELSE IF dt.hour < 23 THEN [dt EXCEPT !.second = 0, !.minute = 0, !.hour = @ + 1]
    ELSE IF dt.date < NaiveDateDaysInMonth(dt.year, dt.month)
         THEN [dt EXCEPT !.second = 0, !.minute = 0, !.hour = 0, !.date = @ + 1]
    ELSE IF dt.month < 12
         THEN [dt EXCEPT !.second = 0, !.minute = 0, !.hour = 0, !.date = 1, !.month = @ + 1]
    ELSE [dt EXCEPT !.second = 0, !.minute = 0, !.hour = 0, !.date = 1, !.month = 1,
                    !.year = @ + 1]

RECURSIVE PlusSeconds(_, _)
PlusSeconds(dt, k) == IF k = 0 THEN dt ELSE PlusSeconds(NextSecond(dt), k - 1)

\* the candidates of a call: <<timer0, vcount, second_offset>>
Candidates(args) ==
    {<<t, v, k>> : t \in args.timer0_min..args.timer0_max,
                   v \in args.vcount_min..args.vcount_max,
                   k \in 0..(args.range_seconds - 1)}

\* the candidate is at or after 2000-01-01 00:00:00
NonNegative(args, c) == PlusSeconds(StartOf(args), c[3]).year >= 2000

CandidateSeed(self, args, c) == KnownSeed(self, StartOf(args), c[1], c[2], c[3])

\* the candidates of a call from a valid start that are at or after the epoch
\* and whose seed is a target
Matching(self, args) ==
    {c \in Candidates(args) :
        /\ IsCalendarDateTime(args)
        /\ NonNegative(args, c)
        /\ CandidateSeed(self, args, c) \in BTreeSet(args.target_seeds)}

\* what a record says, but for its digest string
Fields(r) == <<r.year, r.month, r.date, r.hour, r.minute, r.second, r.timer0, r.vcount, r.seed>>

\* what the record of a candidate has to say
CandidateFields(self, args, c) ==
    LET dt == PlusSeconds(StartOf(args), c[3])
    IN  <<dt.year, dt.month, dt.date, dt.hour, dt.minute, dt.second, c[1], c[2],
          CandidateSeed(self, args, c)>>

RecordsOf(self, args, c, records) ==
    {i \in 1..Len(records) : Fields(records[i]) = CandidateFields(self, args, c)}

ScalarReturned == call # None /\ call[1].fn = "search_seeds_integrated"
SimdReturned == call # None /\ call[1].fn = "search_seeds_integrated_simd"

(***************************************************************************)
(* A search sharded by its caller over two workers.  Each worker calls     *)
(* search_seeds_integrated on the one searcher with its part of the range  *)
(* and owns the array its call returns; a call runs to its end.            *)
(***************************************************************************)
\* the two parts of a search split at k: by seconds into [start, k) and
\* [start + k seconds, range_seconds - k), by a register into [min, k] and
\* [k + 1, max]
ShardParts(args, by, k) ==
    IF by = "seconds"
    THEN LET second(dt) ==
                 [args EXCEPT !.year_start = dt.year, !.month_start = dt.month,
                              !.date_start = dt.date, !.hour_start = dt.hour,
                              !.minute_start = dt.minute, !.second_start = dt.second,
                              !.range_seconds = @ - k]
         IN  <<[args EXCEPT !.range_seconds = k], second(PlusSeconds(StartOf(args), k))>>
    ELSE IF by = "timer0"
    THEN <<[args EXCEPT !.timer0_max = k], [args EXCEPT !.timer0_min = k + 1]>>
    ELSE <<[args EXCEPT !.vcount_max = k], [args EXCEPT !.vcount_min = k + 1]>>

\* the split points of a search
ShardPoints(args) ==
    {<<"seconds", k>> : k \in 0..args.range_seconds}
    \cup {<<"timer0", k>> : k \in args.timer0_min..args.timer0_max}
    \cup {<<"vcount", k>> : k \in args.vcount_min..args.vcount_max}

\* the caller splits a search from a valid start and hands the parts out
StartShards ==
    /\ searcher # None
    /\ workers = None
    /\ \E st \in StartInputs, rs \in 0..MaxRange, rg \in RegisterInputs, tg \in TargetInputs :
          \E args \in {SearchArgs(searcher[1], st, rs, rg, tg)} :
             /\ IsCalendarDateTime(args)
             /\ \E pt \in ShardPoints(args) :
                   workers' = Some([whole |-> args, by |-> pt[1], k |-> pt[2],
                                    parts |-> ShardParts(args, pt[1], pt[2]),
                                    out |-> <<None, None>>])
    /\ UNCHANGED <<target_arch, ctor, searcher, call, ret, lookup, progress, rng, calculator>>

\* one of the workers runs its search
RunShard ==
    /\ workers # None
    /\ \E w \in 1..2 :
          /\ workers[1].out[w] = None
          /\ workers' = Some([workers[1] EXCEPT
                                 !.out[w] = Some(CallScalar(searcher[1], workers[1].parts[w]))])
          /\ searcher' = Some(self_after_search(searcher[1], workers[1].parts[w]))
    /\ UNCHANGED <<target_arch, ctor, call, ret, lookup, progress, rng, calculator>>

\* the caller has both arrays and merges them
MergeShards ==
    /\ workers # None
    /\ workers[1].out[1] # None
    /\ workers[1].out[2] # None
    /\ workers' = None
    /\ UNCHANGED <<target_arch, ctor, searcher, call, ret, lookup, progress, rng, calculator>>

NextShards == New \/ StartShards \/ RunShard \/ MergeShards

SpecShards == Init /\ [][NextShards]_vars

(***************************************************************************)
(* The searches followed one turn of the innermost loop at a time, with    *)
(* the registers, the range and the offsets held as 32-bit words, so that  *)
(* the ends of u32 are among the inputs.  An addition or subtraction on    *)
(* u32 panics in a build with overflow checks when it leaves u32: None.    *)
(***************************************************************************)
Lt32(a, b) == a[1] < b[1] \/ (a[1] = b[1] /\ a[2] < b[2])

\* a + b on u32
checked_add(a, b) ==
    IF a[1] + b[1] + ((a[2] + b[2]) \div 65536) > 65535 THEN None ELSE Some(Add32(a, b))

\* a - b on u32
checked_sub(a, b) ==
    IF Lt32(a, b) THEN None
    ELSE Some(IF a[2] < b[2] THEN <<a[1] - b[1] - 1, (a[2] + 65536) - b[2]>>
              ELSE <<a[1] - b[1], a[2] - b[2]>>)

\* build_message on registers held as words: (vcount << 16) | timer0
build_message_u32(self, timer0, vcount, date_code, time_code) ==
    [base_message(self) EXCEPT
        ![6] = swap_bytes_32(Or32(Shl32(vcount, 16), timer0)),
        ![9] = date_code,
        ![10] = time_code]

\* the body of the loop over second_offset of search_seeds_integrated, and of
\* the loop of process_remaining_seconds; `offset as i64` is the word itself
WideCandidate(self, base, timer0, vcount, offset, target_set, results) ==
    LET candidate(current, codes) ==
            IF codes = None THEN results
            ELSE SeedOfDigest(self,
                    calculate_pokemon_sha1(
                        build_message_u32(self, timer0, vcount, codes[1][2], codes[1][1])),
                    current, timer0, vcount, target_set, results)
    IN  candidate(I64Add(base, offset), calculate_datetime_codes(self, I64Add(base, offset)))

\* process_simd_batch, one turn of the loop that prepares the four messages:
\* current_second_offset = second_offset + i as u32
WideLane(self, base, timer0, vcount, second_offset, i) ==
    LET lane(current, codes) ==
            IF codes = None
            THEN [valid |-> FALSE, seconds |-> I64FromInt(0), message |-> ZeroMessage]
            ELSE [valid |-> TRUE, seconds |-> current,
                  message |-> build_message_u32(self, timer0, vcount,
                                                codes[1][2], codes[1][1])]
        prepared(offset) ==
            IF offset = None THEN None
            ELSE Some(lane(I64Add(base, offset[1]),
                           calculate_datetime_codes(self, I64Add(base, offset[1]))))
    IN  prepared(checked_add(second_offset, U32(0, i)))

\* process_simd_batch: Some(the array after it), None where it panics
WideBatch(self, base, timer0, vcount, second_offset, target_set, results) ==
    LET batch(l0, l1, l2, l3) ==
            IF l0 = None \/ l1 = None \/ l2 = None \/ l3 = None THEN None
            ELSE Some(SimdBatchResults(self, <<l0[1], l1[1], l2[1], l3[1]>>,
                        calculate_pokemon_sha1_simd(
                            SimdMessages(<<l0[1], l1[1], l2[1], l3[1]>>)),
                        timer0, vcount, target_set, results))
    IN  batch(WideLane(self, base, timer0, vcount, second_offset, 0),
              WideLane(self, base, timer0, vcount, second_offset, 1),
              WideLane(self, base, timer0, vcount, second_offset, 2),
              WideLane(self, base, timer0, vcount, second_offset, 3))

RECURSIVE WideRemaining(_, _, _, _, _, _, _, _, _)
\* process_remaining_seconds: for i in 0..batch_size, second_offset + i
WideRemaining(self, base, timer0, vcount, second_offset, i, size, target_set, results) ==
    IF i >= size THEN Some(results)
    ELSE LET turn(offset) ==
                 IF offset = None THEN None
                 ELSE WideRemaining(self, base, timer0, vcount, second_offset, i + 1, size,
                         target_set,
                         WideCandidate(self, base, timer0, vcount, offset[1], target_set,
                                       results))
         IN  turn(checked_add(second_offset, U32(0, i)))

\* mutant: the end of the batch is computed first: min(second_offset + 4,
\* range_seconds) - second_offset
batch_size_FromEnd(range_seconds, second_offset) ==
    LET size(end) ==
            IF end = None THEN None
            ELSE IF Lt32(end[1], range_seconds) THEN Some(4)
            ELSE Some(checked_sub(range_seconds, second_offset)[1][2])
    IN  size(checked_add(second_offset, U32(0, 4)))

\* std::cmp::min(4, range_seconds - second_offset)
batch_size(range_seconds, second_offset) ==
    LET size(left) ==
            IF left = None THEN None
            ELSE IF Lt32(left[1], U32(0, 4)) THEN Some(left[1][2])
            ELSE Some(4)
    IN  size(checked_sub(range_seconds, second_offset))

\* the body of the loop over second_offset of search_seeds_integrated_simd
WideSimdTurn(self, base, timer0, vcount, second_offset, range_seconds, target_set, results) ==
    LET turn(size) ==
            IF size = None THEN None
            ELSE IF size[1] = 4
            THEN WideBatch(self, base, timer0, vcount, second_offset, target_set, results)
            ELSE WideRemaining(self, base, timer0, vcount, second_offset, 0, size[1],
                               target_set, results)
    IN  turn(batch_size(range_seconds, second_offset))

\* what the three `for` loops yield after <<timer0, vcount, second_offset>>:
\* the next second of 0..range_seconds (every fourth with step_by(4)), else
\* the next vcount of vcount_min..=vcount_max, else the next timer0 of
\* timer0_min..=timer0_max, else None: the loops are over
NextTurn(step, args, at) ==
    IF Lt32(U32(0, 0), args.range_seconds)
       /\ Lt32(U32(0, step), checked_sub(args.range_seconds, at[3])[1])
    THEN Some(<<at[1], at[2], Add32(at[3], U32(0, step))>>)
    ELSE IF Lt32(at[2], args.vcount_max)
    THEN Some(<<at[1], Add32(at[2], U32(0, 1)), U32(0, 0)>>)
    ELSE IF Lt32(at[1], args.timer0_max)
    THEN Some(<<Add32(at[1], U32(0, 1)), args.vcount_min, U32(0, 0)>>)
    ELSE None

\* <<timer0_min, timer0_max, vcount_min, vcount_max>>: ranges that end at
\* 0xFFFFFFFF, and registers wider than 16 bits
WideRegisterInputs ==
    {<<U32(65535, 65534), U32(65535, 65535), U32(65535, 65535), U32(65535, 65535)>>,
     <<U32(1, 0), U32(1, 0), U32(1, 65535), U32(2, 0)>>}

\* before the Unix epoch, before the table epoch, at the last second of the
\* table, after its last day, and no date
WideStartInputs ==
    {Start(1969, 12, 31, 23, 59, 58), Start(1999, 12, 31, 23, 59, 58),
     Start(2099, 12, 31, 23, 59, 58), Start(2100, 1, 1, 0, 0, 0),
     Start(2023, 2, 30, 12, 0, 0)}

\* the seed of one candidate, as a caller computes it; MissSeed where the
\* candidate has none
WideSeed(self, base, timer0, vcount, offset) ==
    LET codes_at(start) ==
            IF start = None THEN None
            ELSE calculate_datetime_codes(self, I64Add(start[1], offset))
        message_of(codes) ==
            IF codes = None THEN ZeroMessage
            ELSE build_message_u32(self, timer0, vcount, codes[1][2], codes[1][1])
        seed_of(codes, h) ==
            IF codes = None THEN MissSeed ELSE calculate_pokemon_seed_from_hash(h[1], h[2])
    IN  seed_of(codes_at(base), calculate_pokemon_sha1(message_of(codes_at(base))))

\* the last turns of a range of 0xFFFFFFFF seconds: second_offset of the loop
\* over 0..range_seconds, and of the loop with step_by(4)
FarOffsets(fn) ==
    IF fn = "search_seeds_integrated"
    THEN {U32(65535, 65533), U32(65535, 65534)}
    ELSE {U32(65535, 65528), U32(65535, 65532)}

\* <<range_seconds, the values the loops are at, target_seeds>>: a short
\* search at its first turn, without targets and with the seed of its last
\* candidate as the target, and a search without targets over 0xFFFFFFFF
\* seconds in the last turns of its last register pair
Entries(self, fn, base, regs) ==
    {<<ToU32(rs), <<regs[1], regs[3], U32(0, 0)>>, tg>> :
        rs \in {0, 1, MaxRange},
        tg \in {<< >>, <<WideSeed(self, base, regs[2], regs[4], ToU32(MaxRange - 1))>>}}
    \cup {<<U32(65535, 65535), <<regs[2], regs[4], so>>, << >>>> : so \in FarOffsets(fn)}

\* a search is called (lines 42-60: the array, the target set, the start)
\* and followed from one of its turns
EnterSearch ==
    /\ searcher # None
    /\ progress = None
    /\ \E fn \in {"search_seeds_integrated", "search_seeds_integrated_simd"},
          st \in WideStartInputs, regs \in WideRegisterInputs :
          \E base \in {StartSeconds(st)} :
             \E entry \in Entries(searcher[1], fn, base, regs) :
                progress' = Some([fn |-> fn, start |-> st, base |-> base,
                                  range_seconds |-> entry[1],
                                  timer0_min |-> regs[1], timer0_max |-> regs[2],
                                  vcount_min |-> regs[3], vcount_max |-> regs[4],
                                  target_set |-> BTreeSet(entry[3]),
                                  at |-> entry[2],
                                  results |-> NewArray,
                                  status |-> IF base = None THEN "returned" ELSE "running"])
    /\ UNCHANGED <<target_arch, ctor, searcher, call, ret, lookup, workers, rng, calculator>>

\* one turn of the loop over second_offset, then the loops move on
TurnOutcome(self, p) ==
    LET moved(results, next) ==
            IF next = None THEN [p EXCEPT !.results = results, !.status = "returned"]
            ELSE [p EXCEPT !.results = results, !.at = next[1]]
        done(out) ==
            IF out = None THEN [p EXCEPT !.status = "panicked"]
            ELSE moved(out[1], NextTurn(IF p.fn = "search_seeds_integrated" THEN 1 ELSE 4,
                                        p, p.at))
    IN  done(IF p.range_seconds = U32(0, 0) THEN Some(p.results)
             ELSE IF p.fn = "search_seeds_integrated"
             THEN Some(WideCandidate(self, p.base[1], p.at[1], p.at[2], p.at[3],
                                     p.target_set, p.results))
             ELSE WideSimdTurn(self, p.base[1], p.at[1], p.at[2], p.at[3],
                               p.range_seconds, p.target_set, p.results))

Turn ==
    /\ progress # None
    /\ progress[1].status = "running"
    /\ \E after \in {TurnOutcome(searcher[1], progress[1])} : progress' = Some(after)
    /\ UNCHANGED <<target_arch, ctor, searcher, call, ret, lookup, workers, rng, calculator>>

\* the caller has the array
LeaveSearch ==
    /\ progress # None
    /\ progress[1].status = "returned"
    /\ progress' = None
    /\ UNCHANGED <<target_arch, ctor, searcher, call, ret, lookup, workers, rng, calculator>>

NextTurns == New \/ EnterSearch \/ Turn \/ LeaveSearch

SpecTurns == Init /\ [][NextTurns]_vars

\* the states where Turn is enabled: its only guards
Running == progress # None /\ progress[1].status = "running"

\* a step of Turn: no other action changes the state of a running search,
\* and Turn always does (it moves `at`, returns or panics)
Turned == Running /\ progress' # progress

\* a search that was called keeps running: nothing suspends or cancels it.
\* This is WF_vars(Turn) with ENABLED <<Turn>>_vars written as Running; and
\* a search that has returned hands its array to the caller.
FairTurns ==
    /\ SpecTurns
    /\ []<>(~Running) \/ []<><<Turned>>_vars
    /\ WF_vars(LeaveSearch)

(***************************************************************************)
(* PersonalityRNG: the 64-bit generator of personality_rng.rs              *)
(***************************************************************************)
\* the largest number of steps taken from one seed
MaxAdvances == 5

\* n as u64, for n < 65536
U64FromInt(n) == <<n % 256, n \div 256, 0, 0, 0, 0, 0, 0>>

\* (seed & 1) != 0
IsOdd64(v) == v[1] % 2 = 1

\* v / 2 on u64
Half64(v) ==
    LET half(k) == (v[k] \div 2) + (IF k < 8 THEN (v[k + 1] % 2) * 128 ELSE 0)
    IN  <<half(1), half(2), half(3), half(4), half(5), half(6), half(7), half(8)>>

RECURSIVE SubBytes(_, _, _, _)
SubBytes(p, q, k, borrow) ==
    IF k > 8 THEN <<>>
    ELSE <<(p[k] - q[k] - borrow) % 256>>
         \o SubBytes(p, q, k + 1, IF p[k] - q[k] - borrow < 0 THEN 1 ELSE 0)

\* p.wrapping_sub(q) on u64
WrappingSub64(p, q) == SubBytes(p, q, 1, 0)

\* p < q on u64
Lt64(p, q) == \E k \in 1..8 : p[k] < q[k] /\ \A j \in (k + 1)..8 : p[j] = q[j]

\* p - q on u64: None where the build checks overflow and q > p (a panic)
Sub64(p, q, overflow_checks) ==
    IF overflow_checks /\ Lt64(p, q) THEN None ELSE Some(WrappingSub64(p, q))

\* PersonalityRNG::new(seed)
PersonalityRNG_new(seed) == [seed |-> seed]

\* PersonalityRNG::next: the generator after the call, and the value returned
next(self) ==
    LET stepped(seed) == [self |-> [seed |-> seed], value |-> U64High32(seed)]
    IN  stepped(WrappingAdd64(WrappingMul64(self.seed, LCG_MULTIPLIER), LCG_ADD_VALUE))

RECURSIVE advance(_, _)
\* PersonalityRNG::advance: for _ in 0..advances { self.next(); }
advance(self, advances) ==
    IF advances = 0 THEN self ELSE advance(next(self).self, advances - 1)

RECURSIVE jump_seed(_, _)
\* PersonalityRNG::jump_seed: for _ in 0..steps { current_seed = ... }
jump_seed(seed, steps) ==
    IF steps = 0 THEN seed
    ELSE jump_seed(WrappingAdd64(WrappingMul64(seed, LCG_MULTIPLIER), LCG_ADD_VALUE),
                   steps - 1)

\* calc_index, the way down: the arguments of the recursive call, and whether
\* this level took the odd branch (outermost level first)
calc_index_call(level) ==
    [seed |-> IF IsOdd64(level.seed)
              THEN Half64(WrappingAdd64(WrappingMul64(level.a, level.seed), level.b))
              ELSE Half64(level.seed),
     a |-> WrappingMul64(level.a, level.a),
     b |-> Half64(WrappingMul64(WrappingAdd64(level.a, U64FromInt(1)), level.b)),
     order |-> level.order - 1,
     odd |-> Append(level.odd, IsOdd64(level.seed))]

RECURSIVE calc_index_down(_, _)
calc_index_down(level, last) ==
    IF level.order <= last THEN level
    ELSE calc_index_down(calc_index_call(level), last)

\* calc_index, the way back: .wrapping_mul(2), and .wrapping_sub(1) on the
\* odd branch, from the innermost level at.k to level `last`
RECURSIVE calc_index_up(_, _, _)
calc_index_up(odd, at, last) ==
    IF at.k < last THEN at
    ELSE calc_index_up(odd,
                       [index |-> IF odd[at.k]
                                  THEN WrappingSub64(WrappingMul64(at.index, U64FromInt(2)),
                                                     U64FromInt(1))
                                  ELSE WrappingMul64(at.index, U64FromInt(2)),
                        k |-> at.k - 1],
                       last)

\* PersonalityRNG::calc_index(seed, a, b, order) for order = 64: the
\* recursion is 64 levels deep, followed in four stretches of 16 levels down
\* to order == 0 (index 0) and back
calc_index(seed, a, b, order) ==
    LET down(l) == calc_index_down(calc_index_down(calc_index_down(calc_index_down(
                       l, order - 16), order - 32), order - 48), 0)
        up(odd) == calc_index_up(odd, calc_index_up(odd, calc_index_up(odd,
                       calc_index_up(odd, [index |-> U64FromInt(0), k |-> order],
                       order - 15), order - 31), order - 47), 1)
    IN  up(down([seed |-> seed, a |-> a, b |-> b, order |-> order, odd |-> << >>]).odd).index

\* PersonalityRNG::get_index
get_index(seed) == calc_index(seed, LCG_MULTIPLIER, LCG_ADD_VALUE, 64)

\* PersonalityRNG::distance_between: get_index(to_seed) - get_index(from_seed),
\* a plain u64 subtraction
distance_between(from_seed, to_seed, overflow_checks) ==
    Sub64(get_index(to_seed), get_index(from_seed), overflow_checks)

\* PersonalityRNG::distance_from
distance_from(self, source_seed, overflow_checks) ==
    distance_between(source_seed, self.seed, overflow_checks)

\* 0x123456789ABCDEF0 (the seed of the tests), 0, 1, and the seeds one and
\* three steps before 0: 0x9B1AE6E9A384E6F9 and 0xD6BF1BC80C48391F
SeedInputs ==
    {<<240, 222, 188, 154, 120, 86, 52, 18>>, U64FromInt(0), U64FromInt(1),
     <<249, 230, 132, 163, 233, 230, 26, 155>>, <<31, 57, 72, 12, 200, 27, 191, 214>>}

\* let mut rng = PersonalityRNG::new(seed), in a build with or without
\* overflow checks (debug and release profiles)
RngNew ==
    /\ rng = None
    /\ \E seed \in SeedInputs, checks \in BOOLEAN :
          rng' = Some([overflow_checks |-> checks, source_seed |-> seed,
                       self |-> PersonalityRNG_new(seed), calls |-> 0, observed |-> None])
    /\ UNCHANGED <<target_arch, ctor, searcher, call, ret, lookup, workers, progress, calculator>>

\* rng.next()
RngNext ==
    /\ rng # None
    /\ rng[1].calls < MaxAdvances
    /\ rng' = Some([rng[1] EXCEPT !.self = next(rng[1].self).self,
                                  !.calls = @ + 1, !.observed = None])
    /\ UNCHANGED <<target_arch, ctor, searcher, call, ret, lookup, workers, progress, calculator>>

\* let mut rng2 = PersonalityRNG::new(seed); rng2.advance(n); rng2.current_seed()
RngAdvance ==
    /\ rng # None
    /\ \E n \in 0..MaxAdvances :
          rng' = Some([rng[1] EXCEPT !.observed =
                    Some([fn |-> "advance", n |-> n, status |-> "returned",
                          value |-> advance(PersonalityRNG_new(rng[1].source_seed), n).seed])])
    /\ UNCHANGED <<target_arch, ctor, searcher, call, ret, lookup, workers, progress, calculator>>

\* PersonalityRNG::jump_seed(seed, n)
RngJumpSeed ==
    /\ rng # None
    /\ \E n \in 0..MaxAdvances :
          rng' = Some([rng[1] EXCEPT !.observed =
                    Some([fn |-> "jump_seed", n |-> n, status |-> "returned",
                          value |-> jump_seed(rng[1].source_seed, n)])])
    /\ UNCHANGED <<target_arch, ctor, searcher, call, ret, lookup, workers, progress, calculator>>

\* rng.distance_from(seed)
RngDistanceFrom ==
    /\ rng # None
    /\ \E d \in {distance_from(rng[1].self, rng[1].source_seed, rng[1].overflow_checks)} :
          rng' = Some([rng[1] EXCEPT !.observed =
                    Some([fn |-> "distance_from", n |-> rng[1].calls,
                          status |-> IF d = None THEN "panicked" ELSE "returned",
                          value |-> IF d = None THEN U64FromInt(0) ELSE d[1]])])
    /\ UNCHANGED <<target_arch, ctor, searcher, call, ret, lookup, workers, progress, calculator>>

\* the generator goes out of scope
RngDrop ==
    /\ rng # None
    /\ rng' = None
    /\ UNCHANGED <<target_arch, ctor, searcher, call, ret, lookup, workers, progress, calculator>>

NextRng == RngNew \/ RngNext \/ RngAdvance \/ RngJumpSeed \/ RngDistanceFrom \/ RngDrop

SpecRng == Init /\ [][NextRng]_vars

(***************************************************************************)
(* OffsetCalculator: the game initialisation of offset_calculator.rs       *)
(*                                                                         *)
(* A calculator is the record of its fields rng and advances, with what a  *)
(* call leaves behind: value (the u32 the last next_rand returned) and     *)
(* panicked (the call did not return: an overflow in a build that checks   *)
(* it), with the build's overflow_checks, and with steps, the number of    *)
(* times rng.next() ran since construction or the last reset, counted as   *)
(* <<multiples of 65536, ones>>.                                           *)
(***************************************************************************)
\* calls are taken while fewer than MaxOffset steps were taken one by one
MaxOffset == 5

\* steps + n, for n < 65536
StepsPlus(steps, n) == <<steps[1] + ((steps[2] + n) \div 65536), (steps[2] + n) % 65536>>

\* a.wrapping_sub(b) on u32
WrappingSub32(a, b) == Add32(a, Add32(Not32(b), U32(0, 1)))

\* a - b on u32, a panic where the build checks overflow and a < b
Sub32(a, b, overflow_checks) ==
    IF overflow_checks /\ Lt32(a, b) THEN None ELSE Some(WrappingSub32(a, b))

\* ((value as u64 * factor) >> 32) as u32, for factor < 65536
ScaledRand(value, factor) ==
    U64High32(WrappingMul64(U64FromWords(U32(0, 0), value), U64FromInt(factor)))

\* OffsetCalculator::new(seed)
OffsetCalculator_new(seed, overflow_checks) ==
    [rng |-> PersonalityRNG_new(seed), advances |-> U32(0, 0),
     value |-> U32(0, 0), panicked |-> FALSE,
     overflow_checks |-> overflow_checks, steps |-> <<0, 0>>]

\* OffsetCalculator::next_rand: self.advances += 1; self.rng.next()
next_rand(self) ==
    IF self.panicked THEN self
    ELSE IF self.overflow_checks /\ self.advances = U32(65535, 65535)
    THEN [self EXCEPT !.panicked = TRUE]
    ELSE LET drawn(n) == [self EXCEPT !.advances = Add32(@, U32(0, 1)),
                                      !.rng = n.self, !.value = n.value,
                                      !.steps = StepsPlus(@, 1)]
         IN  drawn(next(self.rng))

RECURSIVE consume_random(_, _)
\* OffsetCalculator::consume_random: for _ in 0..count { self.next_rand(); }
consume_random(self, count) ==
    IF count = 0 \/ self.panicked THEN self
    ELSE consume_random(next_rand(self), count - 1)

\* n / 2 on u32
Half32(n) == <<n[1] \div 2, (n[2] \div 2) + ((n[1] % 2) * 32768)>>

RECURSIVE steps_at_once(_, _)
\* the seed after at.n steps x -> a * x + b, by squaring the step: k counts
\* the bits of n taken
steps_at_once(at, last) ==
    IF at.k >= last THEN at
    ELSE steps_at_once(
            [seed |-> IF at.n[2] % 2 = 1
                      THEN WrappingAdd64(WrappingMul64(at.seed, at.a), at.b)
                      ELSE at.seed,
             a |-> WrappingMul64(at.a, at.a),
             b |-> WrappingMul64(WrappingAdd64(at.a, U64FromInt(1)), at.b),
             n |-> Half32(at.n),
             k |-> at.k + 1],
            last)

\* OffsetCalculator::consume_random for a count too large to follow call by
\* call (count is a u32 with count + self.advances >= 2^31): the count calls
\* of next_rand taken at once. The counter overflows in them iff
\* self.advances + count does; the seed is the one after count steps.
consume_random_at_once(self, count) ==
    IF self.panicked THEN self
    ELSE IF self.overflow_checks /\ checked_add(self.advances, count) = None
    THEN [self EXCEPT !.panicked = TRUE]
    ELSE LET stepped(at) ==
                 [self EXCEPT !.advances = Add32(@, count),
                              !.rng = [seed |-> at.seed],
                              !.value = U64High32(at.seed),
                              !.steps = StepsPlus(<<@[1] + count[1], @[2]>>, count[2])]
         IN  stepped(steps_at_once(steps_at_once(
                         [seed |-> self.rng.seed, a |-> LCG_MULTIPLIER,
                          b |-> LCG_ADD_VALUE, n |-> count, k |-> 0], 16), 32))

\* OffsetCalculator::reset
reset(self, new_seed) ==
    [self EXCEPT !.rng = [seed |-> new_seed], !.advances = U32(0, 0),
                 !.steps = <<0, 0>>]

\* OffsetCalculator::calculate_tid_sid: the calculator after the call and
\* the TidSidResult
calculate_tid_sid(self) ==
    LET decided(after) ==
            LET tid_sid_combined ==
                    U64High32(WrappingMul64(U64FromWords(U32(0, 0), after.value),
                                            U64FromWords(U32(0, 0), U32(65535, 65535))))
            IN  [self |-> after,
                 result |-> [tid |-> tid_sid_combined[2], sid |-> tid_sid_combined[1],
                             advances_used |-> after.advances]]
    IN  decided(next_rand(self))

\* OffsetCalculator::determine_front_residents
determine_front_residents(self) == consume_random(self, 10)

\* OffsetCalculator::determine_back_residents
determine_back_residents(self) == consume_random(self, 3)

\* OffsetCalculator::determine_all_residents
determine_all_residents(self) == determine_back_residents(determine_front_residents(self))

\* const PT_TABLES: [[u32; 5]; 6]
PT_TABLES ==
    <<<<50, 100, 100, 100, 100>>,
      <<50, 50, 100, 100, 100>>,
      <<30, 50, 100, 100, 100>>,
      <<25, 30, 50, 100, 100>>,
      <<20, 25, 33, 50, 100>>,
      <<100, 100, 100, 100, 100>>>>

RECURSIVE pt_thresholds(_, _, _)
\* probability_table_process: for j in 0..5, at one level
pt_thresholds(self, level, j) ==
    IF j >= 5 \/ PT_TABLES[level + 1][j + 1] = 100 \/ self.panicked THEN self
    ELSE LET drawn(after) ==
                 IF after.panicked THEN after
                 ELSE IF ScaledRand(after.value, 101)[2] <= PT_TABLES[level + 1][j + 1]
                 THEN after
                 ELSE pt_thresholds(after, level, j + 1)
         IN  drawn(next_rand(self))

RECURSIVE pt_levels(_, _)
\* probability_table_process: for level in 0..6
pt_levels(self, level) ==
    IF level >= 6 \/ self.panicked THEN self
    ELSE pt_levels(pt_thresholds(self, level, 0), level + 1)

\* OffsetCalculator::probability_table_process
probability_table_process(self) == pt_levels(self, 0)

RECURSIVE probability_table_process_multiple(_, _)
\* OffsetCalculator::probability_table_process_multiple
probability_table_process_multiple(self, count) ==
    IF count = 0 \/ self.panicked THEN self
    ELSE probability_table_process_multiple(probability_table_process(self), count - 1)

\* mutant: only the first two values are compared
ExtraDistinct_FirstTwo(value1, value2, value3) == value1 # value2

\* extra_process: value1 != value2 && value2 != value3 && value3 != value1
ExtraDistinct(value1, value2, value3) ==
    value1 # value2 /\ value2 # value3 /\ value3 # value1

RECURSIVE extra_loop(_)
\* extra_process: the loop; the calculator after it and the three values
extra_loop(self) ==
    LET third(a1, a2, a3) ==
            LET value1 == ScaledRand(a1.value, 15)
                value2 == ScaledRand(a2.value, 15)
                value3 == ScaledRand(a3.value, 15)
            IN  IF a3.panicked \/ ExtraDistinct(value1, value2, value3)
                THEN [self |-> a3, value1 |-> value1, value2 |-> value2,
                      value3 |-> value3]
                ELSE extra_loop(a3)
        second(a1, a2) == third(a1, a2, next_rand(a2))
        first(a1) == second(a1, next_rand(a1))
    IN  first(next_rand(self))

\* OffsetCalculator::extra_process: the calculator after the call and the
\* ExtraResult
extra_process(self) ==
    LET returned(initial_advances, looped) ==
            LET used == Sub32(looped.self.advances, initial_advances,
                              self.overflow_checks)
            IN  IF looped.self.panicked \/ used = None
                THEN [self |-> [looped.self EXCEPT !.panicked = TRUE], result |-> None]
                ELSE [self |-> looped.self,
                      result |-> Some([advances |-> used[1], success |-> TRUE,
                                       value1 |-> looped.value1,
                                       value2 |-> looped.value2,
                                       value3 |-> looped.value3])]
    IN  returned(self.advances, extra_loop(self))

\* generate_chiramii_pid, generate_chiramii_id, generate_chirachino_pid and
\* generate_chirachino_id: one next_rand each
generate_chiramii_pid(self) == next_rand(self)
generate_chiramii_id(self) == next_rand(self)
generate_chirachino_pid(self) == next_rand(self)
generate_chirachino_id(self) == next_rand(self)

\* enum GameMode
GameMode ==
    {"BwNewGameWithSave", "BwNewGameNoSave", "BwContinue",
     "Bw2NewGameWithMemoryLinkSave", "Bw2NewGameNoMemoryLinkSave",
     "Bw2NewGameNoSave", "Bw2ContinueWithMemoryLink", "Bw2ContinueNoMemoryLink"}

\* execute_game_initialization: the arms of match mode
GameInitialization(self, mode) ==
    LET pt(c, count) == probability_table_process_multiple(c, count)
        rand(c, count) == consume_random(c, count)
        tid_sid(c) == calculate_tid_sid(c).self
        extra(c) == extra_process(c).self
        chiramii(c) == generate_chiramii_id(generate_chiramii_pid(c))
        chirachino(c) == generate_chirachino_id(generate_chirachino_pid(c))
    IN  CASE mode = "BwNewGameWithSave" ->
                 pt(tid_sid(chiramii(pt(self, 2))), 4)
          [] mode = "BwNewGameNoSave" ->
                 pt(rand(tid_sid(chiramii(pt(self, 3))), 1), 4)
          [] mode = "BwContinue" ->
                 pt(self, 5)
          [] mode = "Bw2NewGameWithMemoryLinkSave" ->
                 tid_sid(chirachino(rand(pt(rand(pt(rand(self, 1), 1), 2), 1), 2)))
          [] mode = "Bw2NewGameNoMemoryLinkSave" ->
                 tid_sid(chirachino(rand(pt(rand(pt(rand(self, 1), 1), 3), 1), 2)))
          [] mode = "Bw2NewGameNoSave" ->
                 tid_sid(chirachino(rand(pt(rand(pt(rand(pt(rand(self, 1), 1), 2), 1), 4),
                                            1), 2)))
          [] mode = "Bw2ContinueWithMemoryLink" ->
                 extra(pt(rand(pt(rand(self, 1), 1), 2), 4))
          [] mode = "Bw2ContinueNoMemoryLink" ->
                 extra(pt(rand(pt(rand(self, 1), 1), 3), 4))

\* OffsetCalculator::execute_game_initialization: the calculator after the
\* call and the u32 returned, self.advances - initial_advances
execute_game_initialization(self, mode) ==
    LET returned(initial_advances, after) ==
            LET used == Sub32(after.advances, initial_advances, self.overflow_checks)
            IN  IF after.panicked \/ used = None
                THEN [self |-> [after EXCEPT !.panicked = TRUE], result |-> None]
                ELSE [self |-> after, result |-> Some(used[1])]
    IN  returned(self.advances, GameInitialization(self, mode))

\* the seeds of the calculators: 0x12345678 (the seed of the tests) and 0
CalculatorSeeds == {<<120, 86, 52, 18, 0, 0, 0, 0>>, U64FromInt(0)}

\* u32::MAX - 2: a count that leaves the counter three calls from its end
ManyCalls == U32(65535, 65533)

\* the steps taken one by one since construction or the last reset
Walked(self) ==
    IF self.steps[1] = 0 THEN self.steps[2]
    ELSE ((self.steps[1] - ManyCalls[1]) * 65536) + (self.steps[2] - ManyCalls[2])

\* a method of the calculator can be called
Callable ==
    /\ calculator # None
    /\ ~calculator[1].self.panicked
    /\ Walked(calculator[1].self) < MaxOffset

\* the state after a call whose result is the calculator's: nothing else
\* is kept of it
Advanced(after) ==
    calculator' = Some([calculator[1] EXCEPT !.self = after, !.observed = None])

\* the state after a call that returns a result: the calculator, the call,
\* the calculator before it and the result (None for a call that panicked)
Called(after, fn, result) ==
    calculator' = Some([calculator[1] EXCEPT !.self = after,
                                             !.observed = Some([fn |-> fn,
                                                                before |-> calculator[1].self,
                                                                result |-> result])])

\* let mut calculator = OffsetCalculator::new(seed), in a build with or
\* without overflow checks
CalculatorNew ==
    /\ calculator = None
    /\ \E seed \in CalculatorSeeds, checks \in BOOLEAN :
          calculator' = Some([initial_seed |-> seed,
                              self |-> OffsetCalculator_new(seed, checks),
                              observed |-> None])
    /\ UNCHANGED <<target_arch, ctor, searcher, call, ret, lookup, workers, progress, rng>>

\* calculator.next_rand()
NextRand ==
    /\ Callable
    /\ Advanced(next_rand(calculator[1].self))
    /\ UNCHANGED <<target_arch, ctor, searcher, call, ret, lookup, workers, progress, rng>>

\* calculator.consume_random(count), for a small count and, on a calculator
\* that has not advanced, for ManyCalls
ConsumeRandom ==
    /\ Callable
    /\ \/ \E count \in {0, 2} :
             Advanced(consume_random(calculator[1].self, count))
       \/ /\ calculator[1].self.steps = <<0, 0>>
          /\ Advanced(consume_random_at_once(calculator[1].self, ManyCalls))
    /\ UNCHANGED <<target_arch, ctor, searcher, call, ret, lookup, workers, progress, rng>>

\* calculator.reset(new_seed)
Reset ==
    /\ Callable
    /\ \E new_seed \in CalculatorSeeds :
          calculator' = Some([initial_seed |-> new_seed,
                              self |-> reset(calculator[1].self, new_seed),
                              observed |-> Some([fn |-> "reset", before |-> None,
                                                 result |-> None])])
    /\ UNCHANGED <<target_arch, ctor, searcher, call, ret, lookup, workers, progress, rng>>

\* calculator.calculate_tid_sid()
CalculateTidSid ==
    /\ Callable
    /\ Advanced(calculate_tid_sid(calculator[1].self).self)
    /\ UNCHANGED <<target_arch, ctor, searcher, call, ret, lookup, workers, progress, rng>>

\* calculator.determine_front_residents(), determine_back_residents() and
\* determine_all_residents()
DetermineResidents ==
    /\ Callable
    /\ \/ Advanced(determine_front_residents(calculator[1].self))
       \/ Advanced(determine_back_residents(calculator[1].self))
       \/ Advanced(determine_all_residents(calculator[1].self))
    /\ UNCHANGED <<target_arch, ctor, searcher, call, ret, lookup, workers, progress, rng>>

\* calculator.probability_table_process() and
\* calculator.probability_table_process_multiple(count)
ProbabilityTableProcess ==
    /\ Callable
    /\ \/ Advanced(probability_table_process(calculator[1].self))
       \/ \E count \in {0, 2} :
             Advanced(probability_table_process_multiple(calculator[1].self, count))
    /\ UNCHANGED <<target_arch, ctor, searcher, call, ret, lookup, workers, progress, rng>>

\* calculator.extra_process()
ExtraProcess ==
    /\ Callable
    /\ \E r \in {extra_process(calculator[1].self)} :
          Called(r.self, "extra_process", r.result)
    /\ UNCHANGED <<target_arch, ctor, searcher, call, ret, lookup, workers, progress, rng>>

\* calculator.execute_game_initialization(mode)
ExecuteGameInitialization ==
    /\ Callable
    /\ \E mode \in GameMode :
          \E r \in {execute_game_initialization(calculator[1].self, mode)} :
             Called(r.self, "execute_game_initialization", r.result)
    /\ UNCHANGED <<target_arch, ctor, searcher, call, ret, lookup, workers, progress, rng>>

\* the calculator goes out of scope
CalculatorDrop ==
    /\ calculator # None
    /\ calculator' = None
    /\ UNCHANGED <<target_arch, ctor, searcher, call, ret, lookup, workers, progress, rng>>

NextCalculator ==
    \/ CalculatorNew \/ NextRand \/ ConsumeRandom \/ Reset \/ CalculateTidSid
    \/ DetermineResidents \/ ProbabilityTableProcess \/ ExtraProcess
    \/ ExecuteGameInitialization \/ CalculatorDrop

SpecCalculator == Init /\ [][NextCalculator]_vars

(***************************************************************************)
(* Properties of the search engine (specification Spec)                    *)
(***************************************************************************)

\* C1: whichever of search_seeds_integrated and search_seeds_integrated_simd
\* has returned, the other one returns the same set of match records for
\* the same searcher and the same arguments.
C1_ScalarSimdSameRecords ==
    call # None =>
        RecordSet(ret[1].records) =
            RecordSet((IF call[1].fn = "search_seeds_integrated"
                       THEN CallSimd(searcher[1], call[1].args)
                       ELSE CallScalar(searcher[1], call[1].args)).records)

\* a SIMD search over a range that is no multiple of 4, whose 4-lane batch
\* had pre-epoch lanes, and that found matches
C1_Witness ==
    /\ SimdReturned
    /\ call[1].args.range_seconds % 4 # 0
    /\ \E i \in 1..Len(ret[1].digests) :
          /\ ret[1].digests[i].path = "simd"
          /\ ret[1].digests[i].valid = <<FALSE, FALSE, TRUE, TRUE>>
    /\ \E i \in 1..Len(ret[1].digests) : ret[1].digests[i].path = "remaining"
    /\ Len(ret[1].records) >= 2

\* C2: for a valid start, the records search_seeds_integrated returns are
\* one-to-one with the candidates at or after the epoch whose seed is a
\* target: each has exactly one record, no record belongs to another.
C2_RecordsOneToOne ==
    (ScalarReturned /\ IsCalendarDateTime(call[1].args)) =>
        /\ \A c \in Matching(searcher[1], call[1].args) :
              Cardinality(RecordsOf(searcher[1], call[1].args, c, ret[1].records)) = 1
        /\ \A i \in 1..Len(ret[1].records) :
              \E c \in Matching(searcher[1], call[1].args) :
                 Fields(ret[1].records[i]) = CandidateFields(searcher[1], call[1].args, c)
        /\ Len(ret[1].records) = Cardinality(Matching(searcher[1], call[1].args))

\* a search with several targets, a duplicate among them, over 2 x 2
\* register pairs, that skipped pre-epoch candidates and matched two others
C2_Witness ==
    /\ ScalarReturned
    /\ IsCalendarDateTime(call[1].args)
    /\ Len(call[1].args.target_seeds) = 4
    /\ call[1].args.timer0_min < call[1].args.timer0_max
    /\ \E c \in Candidates(call[1].args) : ~NonNegative(call[1].args, c)
    /\ Cardinality(Matching(searcher[1], call[1].args)) = 2
    /\ Len(ret[1].records) = 2

\* C3 as stated: with one target, the seed of a combination of the range,
\* search_seeds_integrated returns exactly one record, that combination's.
C3_ExactlyOneRecord ==
    (ScalarReturned /\ Cardinality(BTreeSet(call[1].args.target_seeds)) = 1) =>
        \A c \in Matching(searcher[1], call[1].args) :
            /\ Len(ret[1].records) = 1
            /\ Fields(ret[1].records[1]) = CandidateFields(searcher[1], call[1].args, c)

\* C3 amended: with one target, the seed of a combination of the range,
\* search_seeds_integrated returns exactly one record of that combination,
\* with its calendar fields, registers and seed, and as many records as
\* there are combinations in the range that derive this seed.
C3_OneRecordPerDerivingCombination ==
    (ScalarReturned /\ Cardinality(BTreeSet(call[1].args.target_seeds)) = 1) =>
        \A c \in Matching(searcher[1], call[1].args) :
            /\ Cardinality(RecordsOf(searcher[1], call[1].args, c, ret[1].records)) = 1
            /\ Len(ret[1].records) =
                  Cardinality({d \in Candidates(call[1].args) :
                                  /\ NonNegative(call[1].args, d)
                                  /\ CandidateSeed(searcher[1], call[1].args, d)
                                        = CandidateSeed(searcher[1], call[1].args, c)})

\* the one target is the seed of 2024-02-29 00:00:00 with the first register
\* pair, and the only record is that combination's
C3_Witness ==
    /\ ScalarReturned
    /\ Len(call[1].args.target_seeds) = 1
    /\ call[1].args.year_start = 2024
    /\ call[1].args.range_seconds >= 3
    /\ Matching(searcher[1], call[1].args)
          = {<<call[1].args.timer0_min, call[1].args.vcount_min, 2>>}
    /\ Len(ret[1].records) = 1
    /\ Fields(ret[1].records[1]) =
          <<2024, 2, 29, 0, 0, 0, call[1].args.timer0_min, call[1].args.vcount_min,
            call[1].args.target_seeds[1]>>

\* C4: with range_seconds = 0, or timer0_min > timer0_max, or
\* vcount_min > vcount_max, both searches return no record.
C4_EmptySpaceEmptyResult ==
    (/\ call # None
     /\ \/ call[1].args.range_seconds = 0
        \/ call[1].args.timer0_min > call[1].args.timer0_max
        \/ call[1].args.vcount_min > call[1].args.vcount_max) =>
        ret[1].records = << >>

\* a search from a valid start with targets and registers but no second
C4_Witness ==
    /\ call # None
    /\ IsCalendarDateTime(call[1].args)
    /\ call[1].args.range_seconds = 0
    /\ call[1].args.timer0_min <= call[1].args.timer0_max
    /\ call[1].args.vcount_min <= call[1].args.vcount_max
    /\ Len(call[1].args.target_seeds) = 4
    /\ ret[1].records = << >>

\* C5: when the start is no calendar date or no time of day, both searches
\* return (no error) an empty result, having computed no digest, looked up
\* no code and reconstructed no datetime.
C5_InvalidStartNoWork ==
    (call # None /\ ~IsCalendarDateTime(call[1].args)) =>
        /\ ret # None
        /\ ret[1].records = << >>
        /\ ret[1].digests = << >>
        /\ ret[1].branches = {}
        /\ ret[1].displays = 0

\* a search from 30 February over a range with candidates and targets
C5_Witness ==
    /\ call # None
    /\ call[1].args.month_start = 2
    /\ call[1].args.date_start = 30
    /\ call[1].args.range_seconds = MaxRange
    /\ call[1].args.timer0_min < call[1].args.timer0_max
    /\ call[1].args.target_seeds # << >>
    /\ ret = Some(NewArray)

\* C6: new returns Ok exactly when mac has 6 bytes, nazo has 5 words and
\* hardware is "DS", "DS_LITE" or "3DS", whatever key_input and frame are;
\* a searcher exists exactly when new returned Ok.
C6_NewSucceedsIff ==
    ctor # None =>
        /\ ctor[1].result \in {"Ok", "Err"}
        /\ ctor[1].result = "Ok" <=>
              /\ Len(ctor[1].mac) = 6
              /\ Len(ctor[1].nazo) = 5
              /\ ctor[1].hardware \in {"DS", "DS_LITE", "3DS"}
        /\ searcher # None <=> ctor[1].result = "Ok"

\* new refused a 7-byte mac though nazo, hardware, key_input and frame were fine
C6_Witness ==
    /\ ctor # None
    /\ Len(ctor[1].mac) = 7
    /\ Len(ctor[1].nazo) = 5
    /\ ctor[1].hardware = "DS_LITE"
    /\ ctor[1].result = "Err"
    /\ ctor[1].error = "MAC address must be 6 bytes"
    /\ searcher = None

\* C7: the hardware a searcher stores is "DS", "DS_LITE" or "3DS", and no
\* search has taken the fallback arm of get_time_code_for_hardware.
C7_HardwareStaysValid ==
    searcher # None =>
        /\ hardware(searcher[1]) \in {"DS", "DS_LITE", "3DS"}
        /\ ret # None => "_" \notin ret[1].branches

\* a search of a DS_LITE searcher looked up time codes through the DS arm
C7_Witness ==
    /\ searcher # None
    /\ hardware(searcher[1]) = "DS_LITE"
    /\ ret # None
    /\ ret[1].branches = {"DS | DS_LITE"}

(***************************************************************************)
(* Properties of the tables (specification SpecTables)                     *)
(***************************************************************************)
\* binary-coded decimal of a two-digit number
Bcd(v) == ((v \div 10) * 16) + (v % 10)

\* (BCD(s / 3600) << 24) | (BCD((s / 60) mod 60) << 16) | (BCD(s mod 60) << 8)
TimeCodeOf(k) == U32((Bcd(k \div 3600) * 256) + Bcd((k \div 60) % 60), Bcd(k % 60) * 256)

\* (BCD(yy) << 24) | (BCD(mm) << 16) | (BCD(dd) << 8) | weekday of the
\* Gregorian date k days after 2000-01-01, which is day 10957 after 1970-01-01
DateCodeOf(k) ==
    U32((Bcd(CivilFromDays(k + 10957).year % 100) * 256) + Bcd(CivilFromDays(k + 10957).month),
        (Bcd(CivilFromDays(k + 10957).day) * 256) + ((6 + k) % 7))

\* C8: the time table has exactly 86400 entries, and get_time_code(s) is
\* the BCD code of s / 3600, (s / 60) mod 60 and s mod 60 for every s below 86400.
C8_TimeCodeIsBcd ==
    /\ Len(TIME_CODES) = 86400
    /\ (lookup # None /\ lookup[1].fn = "get_time_code" /\ lookup[1].index < 86400) =>
          lookup[1].value = TimeCodeOf(lookup[1].index)

\* get_time_code(86399) returned 0x23595900
C8_Witness ==
    lookup = Some([fn |-> "get_time_code", index |-> 86399, value |-> U32(9049, 22784)])

\* C9: the date table has exactly 36525 entries, and get_date_code(d) is the
\* BCD code of the Gregorian date 2000-01-01 + d with weekday (6 + d) mod 7
\* for every d below 36525; the last entry is 2099-12-31.
C9_DateCodeIsBcd ==
    /\ Len(DATE_CODES) = 36525
    /\ CivilFromDays(36524 + 10957) = [year |-> 2099, month |-> 12, day |-> 31]
    /\ (lookup # None /\ lookup[1].fn = "get_date_code" /\ lookup[1].index < 36525) =>
          lookup[1].value = DateCodeOf(lookup[1].index)

\* get_date_code(8825) returned 0x24022904: 2024-02-29, a Thursday
C9_Witness ==
    lookup = Some([fn |-> "get_date_code", index |-> 8825, value |-> U32(9218, 10500)])

\* C10: get_time_code(s) returns 0 for s >= 86400 and get_date_code(d)
\* returns 0 for d >= 36525.
C10_OutOfRangeIsZero ==
    /\ (lookup # None /\ lookup[1].fn = "get_time_code" /\ lookup[1].index >= 86400) =>
          lookup[1].value = U32(0, 0)
    /\ (lookup # None /\ lookup[1].fn = "get_date_code" /\ lookup[1].index >= 36525) =>
          lookup[1].value = U32(0, 0)

\* get_date_code(36525), the first index past the table, returned 0
C10_Witness ==
    lookup = Some([fn |-> "get_date_code", index |-> 36525, value |-> U32(0, 0)])

\* C11: get_time_code_for_hardware(s, "3DS") is get_time_code(s); for "DS" and
\* "DS_LITE" the result is get_time_code(s) with the one bit 0x40000000
\* flipped when s / 3600 >= 12 (the base code has that bit clear) and is
\* get_time_code(s) when s / 3600 < 12; "DS" and "DS_LITE" give the same
\* result.
C11_HardwareTimeCode ==
    (lookup # None /\ lookup[1].fn = "get_time_code_for_hardware") =>
        LET s == lookup[1].index
            value == lookup[1].value
            base == get_time_code(s)
            PM == U32(16384, 0)
        IN  /\ lookup[1].hardware = "3DS" => value = base
            /\ (lookup[1].hardware \in {"DS", "DS_LITE"} /\ s \div 3600 >= 12) =>
                  /\ And32(base, PM) = U32(0, 0)
                  /\ Xor32(value, base) = PM
            /\ (lookup[1].hardware \in {"DS", "DS_LITE"} /\ s \div 3600 < 12) => value = base
            /\ lookup[1].hardware = "DS" => value = get_time_code_for_hardware(s, "DS_LITE")
            /\ lookup[1].hardware = "DS_LITE" => value = get_time_code_for_hardware(s, "DS")

\* get_time_code_for_hardware(43200, "DS_LITE") returned 0x52000000: noon,
\* 0x12000000 with the bit set
C11_Witness ==
    lookup = Some([fn |-> "get_time_code_for_hardware", index |-> 43200,
                   hardware |-> "DS_LITE", value |-> U32(20992, 0)])

\* C12: calculate_pokemon_sha1_simd over four blocks in a row returns 20 words
\* whose words 5i .. 5i+4 are the digest calculate_pokemon_sha1 gives for
\* block i, i = 0..3, with the 4-lane implementation and with the fallback.
C12_SimdIsFourScalarDigests ==
    (lookup # None /\ lookup[1].fn = "calculate_pokemon_sha1_simd") =>
        /\ Len(lookup[1].value) = 20
        /\ \A i \in 0..3 :
              SubSeq(lookup[1].value, 5 * i + 1, 5 * i + 5)
                  = calculate_pokemon_sha1(SubSeq(lookup[1].messages, 16 * i + 1, 16 * i + 16))

\* the 4-lane implementation returned for four different blocks
C12_Witness ==
    /\ target_arch = "wasm32"
    /\ lookup # None
    /\ lookup[1].fn = "calculate_pokemon_sha1_simd"
    /\ lookup[1].messages = ZeroMessage \o OnesMessage \o AbcMessage \o EmptyMessage
    /\ Len(lookup[1].value) = 20

(***************************************************************************)
(* The SHA-1 compression function of FIPS 180-4, section 6.1.2, on one     *)
(* block M of sixteen words from the initial hash value of section 5.3.1   *)
(***************************************************************************)
ROTL(x, n) == Add32(Shl32(x, n), Shr32(x, 32 - n))
Ch(x, y, z) == Xor32(And32(x, y), And32(Not32(x), z))
Parity(x, y, z) == Xor32(x, Xor32(y, z))
Maj(x, y, z) == Xor32(Xor32(And32(x, y), And32(x, z)), And32(y, z))

StdF(t, x, y, z) ==
    IF t \in 0..19 THEN Ch(x, y, z)
    ELSE IF t \in 40..59 THEN Maj(x, y, z)
    ELSE Parity(x, y, z)

StdK(t) ==
    IF t \in 0..19 THEN U32(23170, 31129)          \* 5a827999
    ELSE IF t \in 20..39 THEN U32(28377, 60321)    \* 6ed9eba1
    ELSE IF t \in 40..59 THEN U32(36635, 48348)    \* 8f1bbcdc
    ELSE U32(51810, 49622)                         \* ca62c1d6

RECURSIVE StdWTo(_, _)
\* W_0 .. W_(last-1), held at positions 1 .. last, from a prefix of them
StdWTo(W, last) ==
    IF Len(W) >= last THEN W
    ELSE LET t == Len(W)
         IN  StdWTo(Append(W, ROTL(Xor32(W[t - 2], Xor32(W[t - 7], Xor32(W[t - 13], W[t - 15]))), 1)),
                    last)

StdW(M) == StdWTo(StdWTo(StdWTo(StdWTo(M, 32), 48), 64), 80)

\* step t: T = ROTL5(a) + f_t(b, c, d) + e + K_t + W_t
StdStep(W, s) ==
    [t |-> s.t + 1,
     a |-> Add32(ROTL(s.a, 5),
                 Add32(StdF(s.t, s.b, s.c, s.d), Add32(s.e, Add32(StdK(s.t), W[s.t + 1])))),
     b |-> s.a, c |-> ROTL(s.b, 30), d |-> s.c, e |-> s.d]

RECURSIVE StdStepsTo(_, _, _)
StdStepsTo(W, s, last) == IF s.t >= last THEN s ELSE StdStepsTo(W, StdStep(W, s), last)

StdCompress(M) ==
    LET H == <<U32(26437, 8961), U32(61389, 43913), U32(39098, 56574),
               U32(4146, 21622), U32(50130, 57840)>>
        steps(W, s) ==
            StdStepsTo(W, StdStepsTo(W, StdStepsTo(W, StdStepsTo(W, s, 20), 40), 60), 80)
        sum(s) ==
            <<Add32(s.a, H[1]), Add32(s.b, H[2]), Add32(s.c, H[3]), Add32(s.d, H[4]),
              Add32(s.e, H[5])>>
    IN  sum(steps(StdW(M),
                  [t |-> 0, a |-> H[1], b |-> H[2], c |-> H[3], d |-> H[4], e |-> H[5]]))

\* C13: calculate_pokemon_sha1(block) is the standard SHA-1 compression of
\* the one 16-word block from the standard initial values: schedule
\* W[i] = rotl1(W[i-3] xor W[i-8] xor W[i-14] xor W[i-16]), rounds 0-19 choice
\* with 0x5A827999, 20-39 parity with 0x6ED9EBA1, 40-59 majority with
\* 0x8F1BBCDC, 60-79 parity with 0xCA62C1D6, additions modulo 2^32, output
\* the initial values plus the final a..e.
C13_StandardCompression ==
    (lookup # None /\ lookup[1].fn = "calculate_pokemon_sha1") =>
        lookup[1].value = StdCompress(lookup[1].message)

\* calculate_pokemon_sha1 of the padded block of "abc" returned
\* a9993e36 4706816a ba3e2571 7850c26c 9cd0d89d, the SHA-1 digest of "abc"
C13_Witness ==
    lookup = Some([fn |-> "calculate_pokemon_sha1", message |-> AbcMessage,
                   value |-> <<U32(43417, 15926), U32(18182, 33130), U32(47678, 9585),
                               U32(30800, 49772), U32(40144, 55453)>>])

\* C14: calculate_pokemon_seed_from_hash(h0, h1) reverses the four bytes of
\* h0 and of h1, forms x = (h1_swapped << 32) | h0_swapped and returns the
\* upper 32 bits of (x * 0x5D588B656C078965 + 0x269EC3) mod 2^64, for all h0
\* and h1, (0, 0) and (0xFFFFFFFF, 0xFFFFFFFF) included.
C14_SeedOfSwappedWords ==
    (lookup # None /\ lookup[1].fn = "calculate_pokemon_seed_from_hash") =>
        lookup[1].value
            = U64High32(WrappingAdd64(
                  WrappingMul64(U64FromWords(SwapBytes32(lookup[1].h1), SwapBytes32(lookup[1].h0)),
                                <<101, 137, 7, 108, 101, 139, 88, 93>>),
                  <<195, 158, 38, 0, 0, 0, 0, 0>>))

\* the searcher as the constructor call of this run built it
Constructed(made) == new(made.mac, made.nazo, made.hardware, made.key_input, made.frame)

\* what a search called first thing after construction returns for a call
FirstCall(made, called) ==
    IF called.fn = "search_seeds_integrated"
    THEN CallScalar(Constructed(made)[2], called.args)
    ELSE CallSimd(Constructed(made)[2], called.args)

LowerHex ==
    <<"0", "1", "2", "3", "4", "5", "6", "7", "8", "9", "a", "b", "c", "d", "e", "f">>

HexValue(char) == CHOOSE d \in 0..15 : LowerHex[d + 1] = char

\* the 32-bit word that eight hexadecimal digits spell
HexWord(chars) ==
    U32((HexValue(chars[1]) * 4096) + (HexValue(chars[2]) * 256)
            + (HexValue(chars[3]) * 16) + HexValue(chars[4]),
        (HexValue(chars[5]) * 4096) + (HexValue(chars[6]) * 256)
            + (HexValue(chars[7]) * 16) + HexValue(chars[8]))

\* the candidate message of a record: the template with the record's
\* registers in word 5 and the codes of the record's date and time in
\* words 8 and 9
RecordMessage(self, r) ==
    build_message(self, r.timer0, r.vcount,
                  get_date_code(DaysFromCivil(r.year, r.month, r.date) - 10957),
                  get_time_code_for_hardware((r.hour * 3600) + (r.minute * 60) + r.second,
                                             hardware(self)))

DigestStringOf(h, r) ==
    /\ Len(r.hash) = 40
    /\ \A k \in 1..40 : \E d \in 1..16 : r.hash[k] = LowerHex[d]
    /\ \A j \in 0..4 : HexWord(SubSeq(r.hash, (8 * j) + 1, (8 * j) + 8)) = h[j + 1]
    /\ r.seed = calculate_pokemon_seed_from_hash(h[1], h[2])

\* C16: the digest string of a match record has exactly 40 characters, the
\* words h0, h1, h2, h3, h4 in this order, each as 8 lowercase hexadecimal
\* digits with leading zeros, of the digest of the record's candidate
\* message, whose h0 and h1 produced the record's seed.
C16_DigestString ==
    ret # None =>
        \A i \in 1..Len(ret[1].records) :
            DigestStringOf(calculate_pokemon_sha1(RecordMessage(searcher[1], ret[1].records[i])),
                           ret[1].records[i])

\* a returned record whose digest string has a word with a leading zero and
\* a digit above 9
C16_Witness ==
    /\ ret # None
    /\ \E i \in 1..Len(ret[1].records) :
          /\ \E j \in 0..4 : ret[1].records[i].hash[(8 * j) + 1] = "0"
          /\ \E k \in 1..40 : ret[1].records[i].hash[k] \in {"a", "b", "c", "d", "e", "f"}

\* how many times a record is in an array
Count(r, records) == Cardinality({i \in 1..Len(records) : records[i] = r})

\* the two arrays together hold every record of `whole` as often as `whole`
\* does, and nothing else
SameRecords(first, second, whole) ==
    \A r \in RecordSet(first) \cup RecordSet(second) \cup RecordSet(whole) :
        Count(r, first) + Count(r, second) = Count(r, whole)

\* C17: for any split point of the seconds, of the timer0 range or of the
\* vcount range, the two searches of the parts on the same searcher, run in
\* either order, return arrays that together hold exactly the records of the
\* unsharded search, none lost and none twice.
C17_ShardsLoseNothing ==
    (workers # None /\ workers[1].out[1] # None /\ workers[1].out[2] # None) =>
        SameRecords(workers[1].out[1][1].records, workers[1].out[2][1].records,
                    CallScalar(Constructed(ctor[1])[2], workers[1].whole).records)

\* a search split by seconds inside its range, each part with a record
C17_Witness ==
    /\ workers # None
    /\ workers[1].by = "seconds"
    /\ workers[1].k \in 1..(workers[1].whole.range_seconds - 1)
    /\ workers[1].out[1] # None
    /\ workers[1].out[2] # None
    /\ Len(workers[1].out[1][1].records) >= 1
    /\ Len(workers[1].out[2][1].records) >= 1

\* C18: on a constructed searcher search and search_simd never panic and
\* always return, for every argument tuple: with timer0_max or vcount_max
\* 0xFFFFFFFF, with registers wider than 16 bits, with starts before the
\* epoch or after the table's last day, with range_seconds 0xFFFFFFFF.
C18_SearchesReturn ==
    /\ [](progress # None => progress[1].status # "panicked")
    /\ (progress # None) ~> (progress # None /\ progress[1].status = "returned")

\* search_simd over 0xFFFFFFFF seconds with timer0_max = vcount_max =
\* 0xFFFFFFFF has returned
C18_Witness ==
    /\ progress # None
    /\ progress[1].fn = "search_seeds_integrated_simd"
    /\ progress[1].range_seconds = U32(65535, 65535)
    /\ progress[1].timer0_max = U32(65535, 65535)
    /\ progress[1].vcount_max = U32(65535, 65535)
    /\ progress[1].start.year = 1999
    /\ progress[1].status = "returned"

\* C19: after n calls of next() from s the seed is jump_seed(s, n);
\* advance(n) on a generator made from s reaches the same seed; and
\* distance_from(s) returns n, 0 before any step.
C19_StepsJumpsDistances ==
    (rng # None /\ rng[1].observed # None) =>
        LET r == rng[1]
            seen == rng[1].observed[1]
        IN  /\ (seen.fn \in {"jump_seed", "advance"} /\ seen.n = r.calls) =>
                   seen.value = r.self.seed
            /\ seen.fn = "distance_from" =>
                   seen.status = "returned" /\ seen.value = U64FromInt(r.calls)

\* the second_offsets one turn of the loops works on: one for
\* search_seeds_integrated, up to four below range_seconds for the SIMD search
TurnOffsets(p) ==
    {o \in {Add32(p.at[3], U32(0, i)) :
                i \in 0..(IF p.fn = "search_seeds_integrated" THEN 0 ELSE 3)} :
        ~Lt32(o, p.at[3]) /\ Lt32(o, p.range_seconds)}

\* the candidates of the turn that have a seed (their second is not before
\* 2000-01-01) and whose seed is in the target set
TurnMatches(self, p) ==
    {o \in TurnOffsets(p) :
        /\ ~I64IsNegative(I64Add(p.base[1], o))
        /\ WideSeed(self, p.base, p.at[1], p.at[2], o) \in p.target_set}

\* C20: laziness. In every turn of a search the array keeps the records it
\* had and gains one record, with a seed of the target set, per matching
\* candidate of the turn, and generate_display_datetime is called once per
\* matching candidate: nothing is reconstructed, formatted or appended for a
\* candidate whose seed is no target.
C20_LazyOnMatchOnly ==
    [][(Running /\ progress' # None) =>
          LET before == progress[1].results
              after == progress'[1].results
              matches == Cardinality(TurnMatches(searcher[1], progress[1]))
          IN  /\ Len(after.records) = Len(before.records) + matches
              /\ SubSeq(after.records, 1, Len(before.records)) = before.records
              /\ \A i \in (Len(before.records) + 1)..Len(after.records) :
                    /\ after.records[i].seed \in progress[1].target_set
                    /\ Len(after.records[i].hash) = 40
              /\ after.displays = before.displays + matches]_vars

\* a SIMD search over MaxRange seconds has returned one record, for its last
\* candidate, after turns whose candidates were no target
C20_Witness ==
    /\ progress # None
    /\ progress[1].fn = "search_seeds_integrated_simd"
    /\ progress[1].status = "returned"
    /\ progress[1].range_seconds = ToU32(MaxRange)
    /\ progress[1].target_set # {}
    /\ Len(progress[1].results.records) = 1
    /\ progress[1].results.displays = 1

\* the candidates a run computed a digest for: one per scalar digest, and
\* the valid lanes of every SIMD batch
Evaluated(digests) ==
    UNION {IF digests[j].path = "simd"
           THEN {<<digests[j].timer0, digests[j].vcount, digests[j].second_offset + i>> :
                    i \in {l \in 0..3 : digests[j].valid[l + 1]}}
           ELSE {<<digests[j].timer0, digests[j].vcount, digests[j].second_offset>>} :
           j \in 1..Len(digests)}

\* C21: a candidate whose second is before 2000-01-01 00:00:00 is skipped:
\* it is not evaluated and no record is before 2000, while every candidate
\* at or after the epoch is evaluated; a SIMD batch discards exactly its
\* lanes before the epoch.
C21_PreEpochSkipped ==
    (call # None /\ IsCalendarDateTime(call[1].args)) =>
        /\ Evaluated(ret[1].digests) =
               {c \in Candidates(call[1].args) : NonNegative(call[1].args, c)}
        /\ \A i \in 1..Len(ret[1].records) : ret[1].records[i].year >= 2000
        /\ \A j \in 1..Len(ret[1].digests) :
              ret[1].digests[j].path = "simd" =>
                 \A l \in 0..3 :
                    ret[1].digests[j].valid[l + 1] =
                        NonNegative(call[1].args,
                                    <<ret[1].digests[j].timer0, ret[1].digests[j].vcount,
                                      ret[1].digests[j].second_offset + l>>)

\* a SIMD search from 1999-12-31 23:59:58 whose first batch had two lanes
\* before the epoch and two after, and which returned a record
C21_Witness ==
    /\ SimdReturned
    /\ call[1].args.year_start = 1999
    /\ call[1].args.range_seconds >= 4
    /\ \E j \in 1..Len(ret[1].digests) :
          /\ ret[1].digests[j].path = "simd"
          /\ ret[1].digests[j].valid = <<FALSE, FALSE, TRUE, TRUE>>
    /\ Len(ret[1].records) >= 1

\* the four bytes of a word, least significant first
BytesOf(w) == <<w[2] % 256, w[2] \div 256, w[1] % 256, w[1] \div 256>>

\* the word of four bytes, least significant first
WordOf(b) == <<(b[4] * 256) + b[3], (b[2] * 256) + b[1]>>

\* byteswap32
Reversed(w) == WordOf(<<BytesOf(w)[4], BytesOf(w)[3], BytesOf(w)[2], BytesOf(w)[1]>>)

\* x xor y on bytes, bit by bit
ByteXor(x, y) ==
    LET bit(k) == (((x \div k) % 2) + ((y \div k) % 2)) % 2
    IN  bit(1) + (2 * bit(2)) + (4 * bit(4)) + (8 * bit(8)) + (16 * bit(16))
        + (32 * bit(32)) + (64 * bit(64)) + (128 * bit(128))

\* C22: the template of a constructed searcher, word by word (word i of the
\* claim is base_message[i + 1]): the swapped nazo words, the low mac bytes,
\* the swapped word of the high mac bytes xor 0x06000000 xor frame, the
\* swapped key input, the padding, and 0 in words 5, 8, 9, 10, 11.
C22_TemplateLayout ==
    searcher # None =>
        LET m == searcher[1].base_message
            mac == ctor[1].mac
            f == BytesOf(ctor[1].frame)
        IN  /\ Len(m) = 16
            /\ \A i \in 1..5 : m[i] = Reversed(ctor[1].nazo[i])
            /\ m[7] = <<0, (mac[5] * 256) + mac[6]>>
            /\ m[8] = Reversed(WordOf(<<ByteXor(mac[1], f[1]), ByteXor(mac[2], f[2]),
                                        ByteXor(mac[3], f[3]),
                                        ByteXor(ByteXor(mac[4], 6), f[4])>>))
            /\ m[11] = <<0, 0>> /\ m[12] = <<0, 0>>
            /\ m[13] = Reversed(ctor[1].key_input)
            /\ m[14] = <<32768, 0>> /\ m[15] = <<0, 0>> /\ m[16] = <<0, 416>>
            /\ m[6] = <<0, 0>> /\ m[9] = <<0, 0>> /\ m[10] = <<0, 0>>

\* a searcher made with frame 0xFFFFFFFF and key input 0xFFFFFFFF, after a
\* search
C22_Witness ==
    /\ searcher # None
    /\ ctor[1].frame = <<65535, 65535>>
    /\ ctor[1].key_input = <<65535, 65535>>
    /\ searcher[1].base_message[8] = <<65526, 16619>>
    /\ call # None

RECURSIVE IntOr(_, _)
\* x | y on naturals, bit by bit
IntOr(x, y) ==
    IF x = 0 THEN y
    ELSE IF y = 0 THEN x
    ELSE (IF (x % 2) + (y % 2) > 0 THEN 1 ELSE 0) + (2 * IntOr(x \div 2, y \div 2))

\* the message of candidate c = <<timer0, vcount, second_offset>> as the
\* claim describes it: the template but for words 5, 8 and 9 (the registers
\* of the inputs keep (vcount << 16) | timer0 below 2^31)
ExpectedMessage(self, args, c) ==
    LET dt == PlusSeconds(StartOf(args), c[3])
    IN  [self.base_message EXCEPT
            ![6] = Reversed(ToU32(IntOr(c[2] * 65536, c[1]))),
            ![9] = get_date_code(DaysFromCivil(dt.year, dt.month, dt.date) - 10957),
            ![10] = get_time_code_for_hardware(
                        (dt.hour * 3600) + (dt.minute * 60) + dt.second, self.hardware)]

\* C23: every message hashed by a search is the template with word 5 the
\* swapped (vcount << 16) | timer0, word 8 the date code of the candidate's
\* day and word 9 the hardware-adjusted time code of its second of the day;
\* the message of a valid lane of process_simd_batch is the message
\* build_message returns for that candidate.
C23_HashedMessage ==
    (call # None /\ searcher # None) =>
        \A j \in 1..Len(ret[1].digests) :
            LET d == ret[1].digests[j]
                expected(l) == ExpectedMessage(searcher[1], call[1].args,
                                               <<d.timer0, d.vcount, d.second_offset + l>>)
            IN  IF d.path = "simd"
                THEN \A l \in {i \in 0..3 : d.valid[i + 1]} :
                        /\ SubSeq(d.messages, (16 * l) + 1, (16 * l) + 16) = expected(l)
                        /\ expected(l) = build_message(searcher[1], d.timer0, d.vcount,
                                                       expected(l)[9], expected(l)[10])
                ELSE d.message = expected(0)

\* a SIMD search hashed a full batch and a remainder for timer0 = 0x10000
\* and vcount = 1, whose bits overlap: word 5 is the swapped 0x00010000
C23_Witness ==
    /\ SimdReturned
    /\ \E j \in 1..Len(ret[1].digests) :
          /\ ret[1].digests[j].path = "simd"
          /\ ret[1].digests[j].timer0 = 65536
          /\ ret[1].digests[j].vcount = 1
          /\ ret[1].digests[j].valid = <<TRUE, TRUE, TRUE, TRUE>>
          /\ ret[1].digests[j].messages[6] = <<0, 256>>
    /\ \E j \in 1..Len(ret[1].digests) :
          /\ ret[1].digests[j].path = "remaining"
          /\ ret[1].digests[j].vcount = 1
          /\ ret[1].digests[j].message[6] = <<0, 256>>

\* the second_offsets of the digest computations of one path for one
\* register pair, in the order they were made
OffsetsOf(digests, path, timer0, vcount) ==
    LET mine(d) == d.path = path /\ d.timer0 = timer0 /\ d.vcount = vcount
        picked == SelectSeq(digests, mine)
    IN  [j \in 1..Len(picked) |-> picked[j].second_offset]

RECURSIVE Ascending(_, _, _)
\* the numbers of `from`..`to` that are in `chosen`, in ascending order
Ascending(from, to, chosen) ==
    IF from > to THEN << >>
    ELSE (IF from \in chosen THEN <<from>> ELSE << >>) \o Ascending(from + 1, to, chosen)

OrderKey(r) == <<r.timer0, r.vcount, r.year, r.month, r.date, r.hour, r.minute, r.second>>

RECURSIVE LexLess(_, _, _)
\* a is before b in lexicographic order, from position i on
LexLess(a, b, i) ==
    IF i > Len(a) THEN FALSE
    ELSE a[i] < b[i] \/ (a[i] = b[i] /\ LexLess(a, b, i + 1))

\* C25: the records of a search are in ascending lexicographic order of
\* (timer0, vcount, second offset), and search_seeds_integrated and
\* search_seeds_integrated_simd return the same sequence of records for the
\* same arguments.
C25_SearchOrder ==
    call # None =>
        /\ \A i \in 1..Len(ret[1].records), j \in 1..Len(ret[1].records) :
              i < j => LexLess(OrderKey(ret[1].records[i]), OrderKey(ret[1].records[j]), 1)
        /\ ret[1].records =
              (IF call[1].fn = "search_seeds_integrated"
               THEN CallSimd(searcher[1], call[1].args)
               ELSE CallScalar(searcher[1], call[1].args)).records

\* a SIMD search returned three records: two of one batch of the first
\* register pair, then one of the last pair
C25_Witness ==
    /\ SimdReturned
    /\ Len(ret[1].records) = 3
    /\ ret[1].records[1].timer0 = ret[1].records[2].timer0
    /\ ret[1].records[1].vcount = ret[1].records[2].vcount
    /\ ret[1].records[2].timer0 < ret[1].records[3].timer0
    /\ ret[1].records[2].vcount < ret[1].records[3].vcount
    /\ ret[1].records[1].second = 58
    /\ ret[1].records[2].second = 0
    /\ ret[1].records[3].second = 1

\* the sequence read backwards
Reverse(seq) == [i \in 1..Len(seq) |-> seq[Len(seq) + 1 - i]]

\* the sequence without the repetitions of its elements
Distinct(seq) ==
    LET first(i) == \A j \in 1..(i - 1) : seq[j] # seq[i]
    IN  SelectSeq([i \in 1..Len(seq) |-> <<i, seq[i]>>], LAMBDA p : first(p[1]))

WithoutIndex(pairs) == [i \in 1..Len(pairs) |-> pairs[i][2]]

\* the call that has returned, made again with other target_seeds
SameCallWith(target_seeds) ==
    (IF call[1].fn = "search_seeds_integrated"
     THEN CallScalar(searcher[1], [call[1].args EXCEPT !.target_seeds = target_seeds])
     ELSE CallSimd(searcher[1], [call[1].args EXCEPT !.target_seeds = target_seeds])).records

\* C26: the result depends on the set of target_seeds only: the same call
\* with the seeds reversed, with every repetition removed, or with the list
\* given twice returns the same sequence, and a matching candidate has one
\* record however often its seed is listed.
C26_TargetsAreASet ==
    call # None =>
        /\ ret[1].records = SameCallWith(Reverse(call[1].args.target_seeds))
        /\ ret[1].records = SameCallWith(WithoutIndex(Distinct(call[1].args.target_seeds)))
        /\ ret[1].records = SameCallWith(call[1].args.target_seeds \o call[1].args.target_seeds)
        /\ \A c \in Matching(searcher[1], call[1].args) :
              Cardinality(RecordsOf(searcher[1], call[1].args, c, ret[1].records)) = 1

\* a search whose target_seeds list the seed of one of its records twice
C26_Witness ==
    /\ call # None
    /\ Len(call[1].args.target_seeds) = 4
    /\ call[1].args.target_seeds[1] = call[1].args.target_seeds[4]
    /\ call[1].args.target_seeds[1] # call[1].args.target_seeds[3]
    /\ \E i \in 1..Len(ret[1].records) :
          ret[1].records[i].seed = call[1].args.target_seeds[1]

\* the messages a run hashed for candidate c = <<timer0, vcount, second_offset>>
MessagesOf(digests, c) ==
    UNION {IF digests[j].path = "simd"
           THEN {SubSeq(digests[j].messages, (16 * l) + 1, (16 * l) + 16) :
                    l \in {i \in 0..3 : /\ digests[j].valid[i + 1]
                                        /\ <<digests[j].timer0, digests[j].vcount,
                                             digests[j].second_offset + i>> = c}}
           ELSE IF <<digests[j].timer0, digests[j].vcount, digests[j].second_offset>> = c
           THEN {digests[j].message}
           ELSE {} :
           j \in 1..Len(digests)}

\* the candidates of a call that are after 2099-12-31, the last day of the
\* date table
PastTable(args) ==
    {c \in Candidates(args) :
        IsCalendarDateTime(args) /\ PlusSeconds(StartOf(args), c[3]).year >= 2100}

\* C27: a candidate after 2099-12-31 is not skipped: one message is hashed
\* for it, with word 8 = 0, and when its seed is a target the result has
\* its record, with the calendar fields of its instant (year 2100 or later).
C27_PastTableStillSearched ==
    call # None =>
        \A c \in PastTable(call[1].args) :
            /\ Cardinality(MessagesOf(ret[1].digests, c)) = 1
            /\ \A m \in MessagesOf(ret[1].digests, c) : m[9] = <<0, 0>>
            /\ CandidateSeed(searcher[1], call[1].args, c)
                   \in BTreeSet(call[1].args.target_seeds) =>
                  \E i \in 1..Len(ret[1].records) :
                     /\ Fields(ret[1].records[i]) =
                            CandidateFields(searcher[1], call[1].args, c)
                     /\ ret[1].records[i].year >= 2100

\* a search from 2099-12-31 23:59:58 returned a record of 2100-01-01
C27_Witness ==
    /\ call # None
    /\ call[1].args.year_start = 2099
    /\ PastTable(call[1].args) # {}
    /\ \E i \in 1..Len(ret[1].records) :
          /\ ret[1].records[i].year = 2100
          /\ ret[1].records[i].month = 1
          /\ ret[1].records[i].date = 1

\* the record the claim gives message i (from 0) of a batch: seed and the
\* five digest words within the groups of four, seed and h1 after them
BatchRecord(messages, n_messages, i) ==
    LET h == calculate_pokemon_sha1(SubSeq(messages, (16 * i) + 1, (16 * i) + 16))
        seed == calculate_pokemon_seed_from_hash(h[1], h[2])
    IN  IF i < 4 * (n_messages \div 4) THEN <<seed, h[1], h[2], h[3], h[4], h[5]>>
        ELSE <<seed, h[2]>>

RECURSIVE BatchRecords(_, _, _)
BatchRecords(messages, n_messages, i) ==
    IF i >= n_messages THEN << >>
    ELSE BatchRecord(messages, n_messages, i) \o BatchRecords(messages, n_messages, i + 1)

\* C28: calculate_sha1_batch_simd on batch_size messages returns, in message
\* order, seed, h0, ..., h4 for each of the first 4 * (batch_size / 4)
\* messages and seed, h1 for each of the batch_size mod 4 others, every
\* seed being calculate_pokemon_seed_from_hash of the scalar digest.
C28_BatchRecords ==
    (/\ lookup # None
     /\ lookup[1].fn = "calculate_sha1_batch_simd"
     /\ Len(lookup[1].messages) = lookup[1].batch_size * 16) =>
        /\ Len(lookup[1].value) = (24 * (lookup[1].batch_size \div 4))
                                  + (2 * (lookup[1].batch_size % 4))
        /\ lookup[1].value = BatchRecords(lookup[1].messages, lookup[1].batch_size, 0)

\* a batch of two groups of four and one more message, on the 4-lane build
C28_Witness ==
    /\ target_arch = "wasm32"
    /\ lookup # None
    /\ lookup[1].fn = "calculate_sha1_batch_simd"
    /\ lookup[1].batch_size = 9
    /\ Len(lookup[1].messages) = 144
    /\ Len(lookup[1].value) = 50

\* steps as u64
StepsU64(steps) ==
    <<steps[2] % 256, steps[2] \div 256, steps[1] % 256, (steps[1] \div 256) % 256,
      (steps[1] \div 65536) % 256, 0, 0, 0>>

\* the number of LCG steps that lead from seed `from` to seed `to`, by the
\* positions of the two seeds on the generator's cycle
StepsBetween(from, to) == WrappingSub64(get_index(to), get_index(from))

\* a call of the calculator has returned
Returned(fn) ==
    /\ calculator # None
    /\ calculator[1].observed # None
    /\ calculator[1].observed[1].fn = fn
    /\ ~calculator[1].self.panicked

\* steps b - steps a, for fewer than 65536 steps
StepsFrom(a, b) == ((b[1] - a[1]) * 65536) + (b[2] - a[2])

\* reset sets advances to 0 and the seed to the new seed, and
\* execute_game_initialization returns the number of steps it consumed
ResetAndInitialization ==
    /\ Returned("reset") =>
          /\ calculator[1].self.advances = U32(0, 0)
          /\ calculator[1].self.rng.seed = calculator[1].initial_seed
    /\ Returned("execute_game_initialization") =>
          calculator[1].observed[1].result
             = Some(ToU32(StepsFrom(calculator[1].observed[1].before.steps,
                                    calculator[1].self.steps)))

\* C29: after any sequence of calls since construction or the last reset
\* the advances counter is the number of LCG steps applied to the initial
\* (or reset) seed and the current seed is the seed that many steps after
\* it; reset sets advances to 0 and the seed to the new seed; and
\* execute_game_initialization returns the number of steps it consumed.
C29_AdvancesCountSteps ==
    (calculator # None /\ ~calculator[1].self.panicked) =>
        /\ U64FromWords(U32(0, 0), calculator[1].self.advances)
              = StepsU64(calculator[1].self.steps)
        /\ StepsBetween(calculator[1].initial_seed, calculator[1].self.rng.seed)
              = U64FromWords(U32(0, 0), calculator[1].self.advances)
        /\ ResetAndInitialization

\* what holds of the counter in every state: it is the number of steps
\* modulo 2^32, the seed is the seed that many steps (not modulo 2^32) after
\* the initial seed, and a build with overflow checks panics instead of
\* letting the counter wrap
AdvancesCountStepsModulo ==
    (calculator # None /\ ~calculator[1].self.panicked) =>
        /\ calculator[1].self.advances
              = U32(calculator[1].self.steps[1] % 65536, calculator[1].self.steps[2])
        /\ StepsBetween(calculator[1].initial_seed, calculator[1].self.rng.seed)
              = StepsU64(calculator[1].self.steps)
        /\ calculator[1].self.overflow_checks => calculator[1].self.steps[1] <= 65535
        /\ ResetAndInitialization

\* the counter has wrapped: 2^32 steps or more, in a call that returned
CounterWrapped ==
    /\ calculator # None
    /\ ~calculator[1].self.panicked
    /\ calculator[1].self.steps[1] > 65535

\* value is one of 0..14
InExtraRange(value) == value[1] = 0 /\ value[2] \in 0..14

\* C30: when extra_process returns, its three values are pairwise distinct
\* and each in 0..14, success is true, the reported advances is a positive
\* multiple of 3 and the increase of the advances counter during the call,
\* and the values are the ones derived from the last three draws.
C30_ExtraProcess ==
    Returned("extra_process") =>
        LET result == calculator[1].observed[1].result[1]
            before == calculator[1].observed[1].before
            after == calculator[1].self
            used == StepsFrom(before.steps, after.steps)
            draw1 == next(advance(before.rng, used - 3))
            draw2 == next(draw1.self)
            draw3 == next(draw2.self)
        IN  /\ calculator[1].observed[1].result # None
            /\ result.value1 # result.value2
            /\ result.value2 # result.value3
            /\ result.value3 # result.value1
            /\ InExtraRange(result.value1)
            /\ InExtraRange(result.value2)
            /\ InExtraRange(result.value3)
            /\ result.success = TRUE
            /\ used > 0
            /\ used % 3 = 0
            /\ result.advances = ToU32(used)
            /\ result.advances = WrappingSub32(after.advances, before.advances)
            /\ result.value1 = ScaledRand(draw1.value, 15)
            /\ result.value2 = ScaledRand(draw2.value, 15)
            /\ result.value3 = ScaledRand(draw3.value, 15)
            /\ draw3.self = after.rng

\* extra_process has returned after a second round of three draws
C30_Witness ==
    /\ Returned("extra_process")
    /\ calculator[1].observed[1].result # None
    /\ calculator[1].observed[1].result[1].advances = U32(0, 6)
    /\ calculator[1].observed[1].result[1].success

\* extra_process has returned with the counter wrapped during the call
ExtraAcrossWrap ==
    /\ Returned("extra_process")
    /\ calculator[1].observed[1].before.steps[1] = 65535
    /\ calculator[1].self.steps[1] = 65536

====
